---- MODULE Spec2Model ----
(***************************************************************************)
(* Model of the AMAI voice audit engine (App.tsx, constants.ts,            *)
(* api/normalize.ts): the interview session state machine, the tool-call   *)
(* dispatcher, the playback scheduler, the submission pipeline and the     *)
(* deterministic Stage B of the answer normalisation                       *)
(* (buildGuaranteedPayload).                                               *)
(*                                                                         *)
(* Representation of JavaScript strings.  A string is a sequence of        *)
(* lexemes: the maximal runs of non-blank characters of the string, as     *)
(* typed (case, accents and punctuation kept), separated by one blank.     *)
(* The lexeme " " stands for additional white space, "," ";" "|" for a     *)
(* delimiter character.  TLA+ string literals are limited to Latin-1:      *)
(* U+2019 is written {'}  U+0153 {oe}  U+20AC {EUR}  U+2013 --             *)
(* The character-level functions of the source (norm, the \d regexes) are  *)
(* tabulated per lexeme over the vocabulary of the catalogue and of the    *)
(* sample inputs; everything above the lexeme is computed as in the code.  *)
(***************************************************************************)
EXTENDS Integers, Sequences, FiniteSets, TLC

(***************************************************************************)
(* JavaScript values held in an AuditData map or in a candidate.           *)
(***************************************************************************)
Undef == [undef |-> TRUE]
Str(w) == [str |-> w]
Arr(a) == [arr |-> a]
Bool(b) == [bool |-> b]
Num(n) == [num |-> n]
Obj == [obj |-> TRUE]

IsUndef(v) == "undef" \in DOMAIN v
IsStr(v) == "str" \in DOMAIN v
IsArr(v) == "arr" \in DOMAIN v
IsBool(v) == "bool" \in DOMAIN v
IsNum(v) == "num" \in DOMAIN v

\* obj[key] of a JavaScript object: undefined when the key is absent.
Get(obj, key) == IF key \in DOMAIN obj THEN obj[key] ELSE Undef

\* obj[key] = v
Put(obj, key, v) == (key :> v) @@ obj

\* { ...a, ...b }
Spread(a, b) == b @@ a

EmptyObject == [k \in {} |-> Undef]

\* JavaScript truthiness of a value.
Truthy(v) ==
  CASE IsUndef(v) -> FALSE
    [] IsStr(v) -> v.str # <<>>
    [] IsBool(v) -> v.bool
    [] IsNum(v) -> v.num # 0
    [] OTHER -> TRUE

SOURCE_TAG == <<"Form-AMAI-GAIS-251017">>

QUESTIONS ==
  <<
    [id |-> "q01", type |-> "select", notionKey |-> "Maturité -- Stratégie",
     options |-> <<
          <<"Pas", "de", "stratégie", "définie", "nous", "explorons", "simplement.">>,
          <<"Nous", "avons", "une", "stratégie", "de", "base", "pour", "des", "projets", "spécifiques", "mais", "non", "étendue", "à", "toute", "l'entreprise">>,
          <<"Nous", "avons", "une", "stratégie", "IA", "claire", "à", "l'échelle", "de", "l'entreprise", "en", "cours", "d'implémentation.">>,
          <<"Notre", "stratégie", "IA", "est", "entièrement", "intégrée", "à", "notre", "stratégie", "commerciale", "et", "stimule", "l'innovation.">>>>,
     maxItems |-> 0, triggerAutre |-> <<>>, autreKey |-> ""],
    [id |-> "q02", type |-> "select", notionKey |-> "Maturité -- Données-Infrastructure",
     options |-> <<
          <<"Les", "données", "sont", "cloisonnées", "et", "inaccessibles">>,
          <<"Nous", "commençons", "à", "centraliser", "les", "données", "mais", "c'est", "un", "travail", "en", "cours">>,
          <<"Nous", "disposons", "d'une", "plateforme", "de", "données", "centralisée", "et", "bien", "gérée">>,
          <<"Nos", "données", "sont", "un", "atout", "stratégique", "-", "disponibles", "pour", "modèles", "IA", "-", "gouvernance", "solide">>>>,
     maxItems |-> 0, triggerAutre |-> <<>>, autreKey |-> ""],
    [id |-> "q03", type |-> "select", notionKey |-> "Maturité -- Compétences",
     options |-> <<
          <<"Très", "faibles.", "Nous", "avons", "peu", "ou", "pas", "d'expertise", "en", "interne.">>,
          <<"Basiques.", "Quelques", "membres", "de", "l'équipe", "ont", "des", "connaissances", "mais", "ce", "n'est", "pas", "généralisé.">>,
          <<"Modérées.", "Nous", "avons", "des", "équipes", "ou", "individus", "dédiés", "avec", "de", "solides", "compétences", "IA-Numérique">>,
          <<"Élevées.", "Expertise", "en", "IA-Numérique", "répandue", "et", "encouragée", "activement", "-", "culture", "d'apprentissage">>>>,
     maxItems |-> 0, triggerAutre |-> <<>>, autreKey |-> ""],
    [id |-> "q04", type |-> "select", notionKey |-> "Maturité -- Adoption techno",
     options |-> <<
          <<"Nous", "sommes", "très", "averses", "au", "risque", "et", "lents", "à", "adopter", "les", "nouvelles", "technologies.">>,
          <<"Nous", "expérimentons", "les", "nouvelles", "technologies", "à", "petite", "échelle", "et", "de", "manière", "informelle.">>,
          <<"Nous", "avons", "un", "processus", "formel", "pour", "piloter", "et", "adopter", "les", "nouvelles", "technologies.">>,
          <<"Notre", "R&D", "est", "très", "active", "en", "technologies", "de", "pointe.", "Objectif:", "obtenir", "un", "avantage", "concurrentiel">>>>,
     maxItems |-> 0, triggerAutre |-> <<>>, autreKey |-> ""],
    [id |-> "q05", type |-> "select", notionKey |-> "Maturité -- Gouvernance",
     options |-> <<
          <<"Il", "n'y", "a", "pas", "de", "processus", "formel", "de", "gouvernance", "ou", "de", "priorisation.">>,
          <<"Les", "projets", "sont", "menés", "par", "des", "départements", "individuels", "avec", "peu", "de", "supervision", "centrale.">>,
          <<"Nous", "avons", "un", "comité", "interfonctionnel", "qui", "examine", "et", "priorise", "les", "initiatives", "d'IA.">>,
          <<"Nous", "avons", "une", "gouvernance", "IA", "solide", "intégrant", "ROI", "mesurable", "éthique", "et", "stratégie">>>>,
     maxItems |-> 0, triggerAutre |-> <<>>, autreKey |-> ""],
    [id |-> "q06", type |-> "select", notionKey |-> "Statut Répondant - Position",
     options |-> <<
          <<"Dirigeant", "/", "cadre", "dirigeant", "/", "visionnaire", "décisionnaire">>,
          <<"Responsable", "opérationnel", "(cadre", "dirigeant", "opérationnel)">>,
          <<"Collaborateur", "/", "expert", "technique">>,
          <<"Autre">>>>,
     maxItems |-> 0, triggerAutre |-> <<"Autre">>, autreKey |-> "Statut Répondant -- Autre"],
    [id |-> "q07", type |-> "select", notionKey |-> "Service-dépt Rep",
     options |-> <<
          <<"Direction", "Générale">>,
          <<"Direction", "Financière", "/", "Comptable">>,
          <<"Direction", "Commerciale", "/", "Ventes">>,
          <<"Direction", "Marketing", "/", "Communication">>,
          <<"Direction", "Produit", "/", "Innovation">>,
          <<"Direction", "des", "Opérations", "/", "Logistique">>,
          <<"Direction", "des", "Ressources", "Humaines">>,
          <<"Direction", "Informatique", "/", "Systèmes", "d'Information">>,
          <<"Autre">>>>,
     maxItems |-> 0, triggerAutre |-> <<"Autre">>, autreKey |-> "Service-dépt Rep Autre"],
    [id |-> "q08", type |-> "select", notionKey |-> "Intitulé poste Rep",
     options |-> <<
          <<"Président", "/", "CEO", "/", "Directeur", "Général">>,
          <<"Directeur", "Financier", "(CFO)">>,
          <<"Directeur", "des", "Opérations", "(COO)">>,
          <<"Directeur", "Technique", "/", "CTO", "/", "DSI">>,
          <<"Directeur", "Marketing", "/", "CMO">>,
          <<"Directeur", "Commercial", "/", "Responsable", "des", "Ventes">>,
          <<"Responsable", "Produit", "/", "Chef", "de", "Produit">>,
          <<"Responsable", "Logistique", "/", "Supply", "Chain">>,
          <<"Responsable", "des", "Ressources", "Humaines">>,
          <<"Responsable", "ADV", "/", "Administration", "des", "Ventes">>,
          <<"Autre">>>>,
     maxItems |-> 0, triggerAutre |-> <<"Autre">>, autreKey |-> "Intitulé poste Rep-Autre"],
    [id |-> "q09", type |-> "select", notionKey |-> "Secteur activité",
     options |-> <<
          <<"Agriculture-sylviculture-pêche">>,
          <<"Industries", "extractives">>,
          <<"Industrie", "manufacturière">>,
          <<"Production-distribution", "énergie">>,
          <<"Production-distribution", "eau-gestion", "déchets">>,
          <<"Construction">>,
          <<"Commerce", "réparation", "automobiles-moto">>,
          <<"Transports-entreposage">>,
          <<"Hébergement-restauration">>,
          <<"Information-communication">>,
          <<"Finance-banque-assurance">>,
          <<"Immobilier">>,
          <<"Science-technique">>,
          <<"Service", "administratif-soutien">>,
          <<"Administration", "publique">>,
          <<"Enseignement">>,
          <<"Santé-action", "sociale">>,
          <<"Art-spectacle-activité_récréative">>,
          <<"Autres", "activités", "de", "services">>,
          <<"Autre">>>>,
     maxItems |-> 0, triggerAutre |-> <<"Autre">>, autreKey |-> "Secteur activité-Autre"],
    [id |-> "q10", type |-> "select", notionKey |-> "Sous-secteur niche",
     options |-> <<
          <<"Agro-alimentaire">>,
          <<"Santé/Biotech">>,
          <<"Industrie", "Automobile">>,
          <<"Conseil", "Stratégique">>,
          <<"Aéronautique">>,
          <<"IT/SaaS">>,
          <<"Finance/Assurance">>,
          <<"Énergie">>,
          <<"Éducation">>,
          <<"Retail", "/", "E-commerce">>,
          <<"Autre">>>>,
     maxItems |-> 0, triggerAutre |-> <<"Autre">>, autreKey |-> "Sous-secteur-Autre"],
    [id |-> "q11", type |-> "select", notionKey |-> "Nbr employés",
     options |-> <<
          <<"<50">>,
          <<"50-250">>,
          <<"250-500">>,
          <<"500-1000">>,
          <<">1000">>>>,
     maxItems |-> 0, triggerAutre |-> <<>>, autreKey |-> ""],
    [id |-> "q12", type |-> "select", notionKey |-> "CA",
     options |-> <<
          <<"<1", "M{EUR}">>,
          <<"1-5", "M{EUR}">>,
          <<"5-20", "M{EUR}">>,
          <<"20-50", "M{EUR}">>,
          <<">50", "M{EUR}">>>>,
     maxItems |-> 0, triggerAutre |-> <<>>, autreKey |-> ""],
    [id |-> "q13", type |-> "select", notionKey |-> "Type offres",
     options |-> <<
          <<"Produits", "physiques">>,
          <<"Services">>,
          <<"Produits", "+", "services">>,
          <<"Solutions", "sur-mesure", "/", "projets">>,
          <<"Autre">>>>,
     maxItems |-> 0, triggerAutre |-> <<"Autre">>, autreKey |-> "Type offres-Autre"],
    [id |-> "q14", type |-> "select", notionKey |-> "BtoB-BtoC",
     options |-> <<
          <<"BtoB">>,
          <<"BtoC">>,
          <<"BtoB", "+", "BtoC">>>>,
     maxItems |-> 0, triggerAutre |-> <<>>, autreKey |-> ""],
    [id |-> "q15", type |-> "select", notionKey |-> "Nbr Entités",
     options |-> <<
          <<"1:", "entité", "principale">>,
          <<"2:", "entité", "principale", "+", "1", "filiale">>,
          <<"3:", "entité", "principale", "+", "2", "filiales">>,
          <<"4", "ou", "plus">>,
          <<"Autre">>>>,
     maxItems |-> 0, triggerAutre |-> <<"Autre">>, autreKey |-> "Nbr Entités-Autre"],
    [id |-> "q16", type |-> "select", notionKey |-> "Marché desservi",
     options |-> <<
          <<"Local", "/", "Régional">>,
          <<"National">>,
          <<"International">>,
          <<"Autre">>>>,
     maxItems |-> 0, triggerAutre |-> <<"Autre">>, autreKey |-> "Marché desservi -- Autre"],
    [id |-> "q17", type |-> "array", notionKey |-> "Objectifs IA-Digital",
     options |-> <<
          <<"Concevoir", "une", "application", "interne", "d{'}optimisation", "du", "cycle", "de", "vente.">>,
          <<"Mettre", "en", "place", "un", "tableau", "de", "bord", "automatisé", "pour", "piloter", "la", "performance.">>,
          <<"Créer", "un", "assistant", "IA", "pour", "automatiser", "les", "tâches", "administratives.">>,
          <<"Développer", "une", "solution", "de", "recommandation", "personnalisée", "(produits", "ou", "contenus).">>,
          <<"Automatiser", "la", "détection", "d{'}anomalies", "dans", "les", "données", "ou", "la", "production.">>,
          <<"Optimiser", "la", "maintenance", "prédictive", "des", "équipements.">>,
          <<"Assistance", "à", "la", "stratégie", "de", "l'entreprise", ":", "commercial">>,
          <<"Assistance", "à", "la", "stratégie", "de", "l'entreprise", ":", "innovation">>,
          <<"Assistance", "à", "la", "stratégie", "de", "l'entreprise", ":", "finance-fiscalité">>,
          <<"Assistance", "à", "la", "stratégie", "de", "l'entreprise", ":", "management">>,
          <<"Autre">>>>,
     maxItems |-> 7, triggerAutre |-> <<"Autre">>, autreKey |-> "Objectifs IA-Digital-Autre"],
    [id |-> "q18", type |-> "array", notionKey |-> "Défis prioritaires (max 3)",
     options |-> <<
          <<"Définir", "ou", "actualiser", "la", "stratégie", "IA", "et", "Data">>,
          <<"Automatiser", "des", "processus", "internes", "/", "améliorer", "la", "productivité">>,
          <<"Améliorer", "la", "croissance", "commerciale", "/", "différenciation", "concurrentielle">>,
          <<"Mieux", "exploiter", "/", "valoriser", "les", "données", "(data", "management)">>,
          <<"Optimiser", "la", "marge", "et", "les", "coûts">>,
          <<"Renforcer", "la", "satisfaction", "client", "et", "l{'}expérience", "utilisateur">>,
          <<"Gouvernance", "et", "conformité", "(RGPD", "AI", "Act", "éthique)">>,
          <<"Recruter", "et", "développer", "les", "compétences", "IA/numériques">>,
          <<"Autre">>>>,
     maxItems |-> 3, triggerAutre |-> <<"Autre">>, autreKey |-> "Défis -- Autre"],
    [id |-> "q19", type |-> "array", notionKey |-> "Attentes IA-Digital",
     options |-> <<
          <<"Obtenir", "une", "proposition", "de", "valeur", "actualisée", "grâce", "à", "l{'}IA">>,
          <<"Bénéficier", "d{'}une", "approche", "stratégique", "et", "d{'}une", "feuille", "de", "route">>,
          <<"Mettre", "en", "place", "une", "approche", "opérationnelle", "(automatisation", "process)">>,
          <<"Gagner", "en", "productivité", "/", "gagner", "du", "temps">>,
          <<"Restaurer", "ou", "augmenter", "les", "marges">>,
          <<"Autre">>>>,
     maxItems |-> 5, triggerAutre |-> <<"Autre">>, autreKey |-> "Attentes IA-Digital-Autre"],
    [id |-> "q20", type |-> "string", notionKey |-> "e-mail répondant",
     options |-> <<>>,
     maxItems |-> 0, triggerAutre |-> <<>>, autreKey |-> ""],
    [id |-> "q21", type |-> "bool", notionKey |-> "Consentement RGPD (Oui/Non)",
     options |-> <<>>,
     maxItems |-> 0, triggerAutre |-> <<>>, autreKey |-> ""]
  >>

(***************************************************************************)
(* Per-lexeme tables of the character-level functions.                     *)
(***************************************************************************)
\* norm of ensureSelect on one lexeme: lower case, NFD without combining
\* marks, every run of characters outside [a-z0-9] turned into one blank.
NormTablePairs ==
  { <<" ", <<>>>>, <<"|", <<>>>>, <<"Pas", <<"pas">>>>, <<"de", <<"de">>>>,
    <<"stratégie", <<"strategie">>>>, <<"définie", <<"definie">>>>, <<"nous", <<"nous">>>>,
    <<"explorons", <<"explorons">>>>, <<"simplement.", <<"simplement">>>>,
    <<"Nous", <<"nous">>>>, <<"avons", <<"avons">>>>, <<"une", <<"une">>>>,
    <<"base", <<"base">>>>, <<"pour", <<"pour">>>>, <<"des", <<"des">>>>,
    <<"projets", <<"projets">>>>, <<"spécifiques", <<"specifiques">>>>,
    <<"mais", <<"mais">>>>, <<"non", <<"non">>>>, <<"étendue", <<"etendue">>>>,
    <<"à", <<"a">>>>, <<"toute", <<"toute">>>>, <<"l'entreprise", <<"l", "entreprise">>>>,
    <<"IA", <<"ia">>>>, <<"claire", <<"claire">>>>, <<"l'échelle", <<"l", "echelle">>>>,
    <<"en", <<"en">>>>, <<"cours", <<"cours">>>>,
    <<"d'implémentation.", <<"d", "implementation">>>>, <<"Notre", <<"notre">>>>,
    <<"est", <<"est">>>>, <<"entièrement", <<"entierement">>>>,
    <<"intégrée", <<"integree">>>>, <<"notre", <<"notre">>>>,
    <<"commerciale", <<"commerciale">>>>, <<"et", <<"et">>>>, <<"stimule", <<"stimule">>>>,
    <<"l'innovation.", <<"l", "innovation">>>>, <<"Les", <<"les">>>>,
    <<"données", <<"donnees">>>>, <<"sont", <<"sont">>>>,
    <<"cloisonnées", <<"cloisonnees">>>>, <<"inaccessibles", <<"inaccessibles">>>>,
    <<"commençons", <<"commencons">>>>, <<"centraliser", <<"centraliser">>>>,
    <<"les", <<"les">>>>, <<"c'est", <<"c", "est">>>>, <<"un", <<"un">>>>,
    <<"travail", <<"travail">>>>, <<"disposons", <<"disposons">>>>,
    <<"d'une", <<"d", "une">>>>, <<"plateforme", <<"plateforme">>>>,
    <<"centralisée", <<"centralisee">>>>, <<"bien", <<"bien">>>>, <<"gérée", <<"geree">>>>,
    <<"Nos", <<"nos">>>>, <<"atout", <<"atout">>>>, <<"stratégique", <<"strategique">>>>,
    <<"-", <<>>>>, <<"disponibles", <<"disponibles">>>>, <<"modèles", <<"modeles">>>>,
    <<"gouvernance", <<"gouvernance">>>>, <<"solide", <<"solide">>>>, <<"Très", <<"tres">>>>,
    <<"faibles.", <<"faibles">>>>, <<"peu", <<"peu">>>>, <<"ou", <<"ou">>>>,
    <<"pas", <<"pas">>>>, <<"d'expertise", <<"d", "expertise">>>>,
    <<"interne.", <<"interne">>>>, <<"Basiques.", <<"basiques">>>>,
    <<"Quelques", <<"quelques">>>>, <<"membres", <<"membres">>>>,
    <<"l'équipe", <<"l", "equipe">>>>, <<"ont", <<"ont">>>>,
    <<"connaissances", <<"connaissances">>>>, <<"ce", <<"ce">>>>,
    <<"n'est", <<"n", "est">>>>, <<"généralisé.", <<"generalise">>>>,
    <<"Modérées.", <<"moderees">>>>, <<"équipes", <<"equipes">>>>,
    <<"individus", <<"individus">>>>, <<"dédiés", <<"dedies">>>>, <<"avec", <<"avec">>>>,
    <<"solides", <<"solides">>>>, <<"compétences", <<"competences">>>>,
    <<"IA-Numérique", <<"ia", "numerique">>>>, <<"Élevées.", <<"elevees">>>>,
    <<"Expertise", <<"expertise">>>>, <<"répandue", <<"repandue">>>>,
    <<"encouragée", <<"encouragee">>>>, <<"activement", <<"activement">>>>,
    <<"culture", <<"culture">>>>, <<"d'apprentissage", <<"d", "apprentissage">>>>,
    <<"sommes", <<"sommes">>>>, <<"très", <<"tres">>>>, <<"averses", <<"averses">>>>,
    <<"au", <<"au">>>>, <<"risque", <<"risque">>>>, <<"lents", <<"lents">>>>,
    <<"adopter", <<"adopter">>>>, <<"nouvelles", <<"nouvelles">>>>,
    <<"technologies.", <<"technologies">>>>, <<"expérimentons", <<"experimentons">>>>,
    <<"technologies", <<"technologies">>>>, <<"petite", <<"petite">>>>,
    <<"échelle", <<"echelle">>>>, <<"manière", <<"maniere">>>>,
    <<"informelle.", <<"informelle">>>>, <<"processus", <<"processus">>>>,
    <<"formel", <<"formel">>>>, <<"piloter", <<"piloter">>>>, <<"R&D", <<"r", "d">>>>,
    <<"active", <<"active">>>>, <<"pointe.", <<"pointe">>>>, <<"Objectif:", <<"objectif">>>>,
    <<"obtenir", <<"obtenir">>>>, <<"avantage", <<"avantage">>>>,
    <<"concurrentiel", <<"concurrentiel">>>>, <<"Il", <<"il">>>>, <<"n'y", <<"n", "y">>>>,
    <<"a", <<"a">>>>, <<"priorisation.", <<"priorisation">>>>, <<"menés", <<"menes">>>>,
    <<"par", <<"par">>>>, <<"départements", <<"departements">>>>,
    <<"individuels", <<"individuels">>>>, <<"supervision", <<"supervision">>>>,
    <<"centrale.", <<"centrale">>>>, <<"comité", <<"comite">>>>,
    <<"interfonctionnel", <<"interfonctionnel">>>>, <<"qui", <<"qui">>>>,
    <<"examine", <<"examine">>>>, <<"priorise", <<"priorise">>>>,
    <<"initiatives", <<"initiatives">>>>, <<"d'IA.", <<"d", "ia">>>>,
    <<"intégrant", <<"integrant">>>>, <<"ROI", <<"roi">>>>, <<"mesurable", <<"mesurable">>>>,
    <<"éthique", <<"ethique">>>>, <<"Dirigeant", <<"dirigeant">>>>, <<"/", <<>>>>,
    <<"cadre", <<"cadre">>>>, <<"dirigeant", <<"dirigeant">>>>,
    <<"visionnaire", <<"visionnaire">>>>, <<"décisionnaire", <<"decisionnaire">>>>,
    <<"Responsable", <<"responsable">>>>, <<"opérationnel", <<"operationnel">>>>,
    <<"(cadre", <<"cadre">>>>, <<"opérationnel)", <<"operationnel">>>>,
    <<"Collaborateur", <<"collaborateur">>>>, <<"expert", <<"expert">>>>,
    <<"technique", <<"technique">>>>, <<"Autre", <<"autre">>>>,
    <<"Direction", <<"direction">>>>, <<"Générale", <<"generale">>>>,
    <<"Financière", <<"financiere">>>>, <<"Comptable", <<"comptable">>>>,
    <<"Commerciale", <<"commerciale">>>>, <<"Ventes", <<"ventes">>>>,
    <<"Marketing", <<"marketing">>>>, <<"Communication", <<"communication">>>>,
    <<"Produit", <<"produit">>>>, <<"Innovation", <<"innovation">>>>,
    <<"Opérations", <<"operations">>>>, <<"Logistique", <<"logistique">>>>,
    <<"Ressources", <<"ressources">>>>, <<"Humaines", <<"humaines">>>>,
    <<"Informatique", <<"informatique">>>>, <<"Systèmes", <<"systemes">>>>,
    <<"d'Information", <<"d", "information">>>>, <<"Président", <<"president">>>>,
    <<"CEO", <<"ceo">>>>, <<"Directeur", <<"directeur">>>>, <<"Général", <<"general">>>>,
    <<"Financier", <<"financier">>>>, <<"(CFO)", <<"cfo">>>>, <<"(COO)", <<"coo">>>>,
    <<"Technique", <<"technique">>>>, <<"CTO", <<"cto">>>>, <<"DSI", <<"dsi">>>>,
    <<"CMO", <<"cmo">>>>, <<"Commercial", <<"commercial">>>>, <<"Chef", <<"chef">>>>,
    <<"Supply", <<"supply">>>>, <<"Chain", <<"chain">>>>, <<"ADV", <<"adv">>>>,
    <<"Administration", <<"administration">>>>,
    <<"Agriculture-sylviculture-pêche", <<"agriculture", "sylviculture", "peche">>>>,
    <<"Industries", <<"industries">>>>, <<"extractives", <<"extractives">>>>,
    <<"Industrie", <<"industrie">>>>, <<"manufacturière", <<"manufacturiere">>>>,
    <<"Production-distribution", <<"production", "distribution">>>>,
    <<"énergie", <<"energie">>>>, <<"eau-gestion", <<"eau", "gestion">>>>,
    <<"déchets", <<"dechets">>>>, <<"Construction", <<"construction">>>>,
    <<"Commerce", <<"commerce">>>>, <<"réparation", <<"reparation">>>>,
    <<"automobiles-moto", <<"automobiles", "moto">>>>,
    <<"Transports-entreposage", <<"transports", "entreposage">>>>,
    <<"Hébergement-restauration", <<"hebergement", "restauration">>>>,
    <<"Information-communication", <<"information", "communication">>>>,
    <<"Finance-banque-assurance", <<"finance", "banque", "assurance">>>>,
    <<"Immobilier", <<"immobilier">>>>, <<"Science-technique", <<"science", "technique">>>>,
    <<"Service", <<"service">>>>,
    <<"administratif-soutien", <<"administratif", "soutien">>>>,
    <<"publique", <<"publique">>>>, <<"Enseignement", <<"enseignement">>>>,
    <<"Santé-action", <<"sante", "action">>>>, <<"sociale", <<"sociale">>>>,
    <<"Art-spectacle-activité_récréative", <<"art", "spectacle", "activite", "recreative">>>>,
    <<"Autres", <<"autres">>>>, <<"activités", <<"activites">>>>,
    <<"services", <<"services">>>>, <<"Agro-alimentaire", <<"agro", "alimentaire">>>>,
    <<"Santé/Biotech", <<"sante", "biotech">>>>, <<"Automobile", <<"automobile">>>>,
    <<"Conseil", <<"conseil">>>>, <<"Stratégique", <<"strategique">>>>,
    <<"Aéronautique", <<"aeronautique">>>>, <<"IT/SaaS", <<"it", "saas">>>>,
    <<"Finance/Assurance", <<"finance", "assurance">>>>, <<"Énergie", <<"energie">>>>,
    <<"Éducation", <<"education">>>>, <<"Retail", <<"retail">>>>,
    <<"E-commerce", <<"e", "commerce">>>>, <<"<50", <<"50">>>>,
    <<"50-250", <<"50", "250">>>>, <<"250-500", <<"250", "500">>>>,
    <<"500-1000", <<"500", "1000">>>>, <<">1000", <<"1000">>>>, <<"<1", <<"1">>>>,
    <<"M{EUR}", <<"m">>>>, <<"1-5", <<"1", "5">>>>, <<"5-20", <<"5", "20">>>>,
    <<"20-50", <<"20", "50">>>>, <<">50", <<"50">>>>, <<"Produits", <<"produits">>>>,
    <<"physiques", <<"physiques">>>>, <<"Services", <<"services">>>>, <<"+", <<>>>>,
    <<"Solutions", <<"solutions">>>>, <<"sur-mesure", <<"sur", "mesure">>>>,
    <<"BtoB", <<"btob">>>>, <<"BtoC", <<"btoc">>>>, <<"1:", <<"1">>>>,
    <<"entité", <<"entite">>>>, <<"principale", <<"principale">>>>, <<"2:", <<"2">>>>,
    <<"1", <<"1">>>>, <<"filiale", <<"filiale">>>>, <<"3:", <<"3">>>>, <<"2", <<"2">>>>,
    <<"filiales", <<"filiales">>>>, <<"4", <<"4">>>>, <<"plus", <<"plus">>>>,
    <<"Local", <<"local">>>>, <<"Régional", <<"regional">>>>, <<"National", <<"national">>>>,
    <<"International", <<"international">>>>, <<"Concevoir", <<"concevoir">>>>,
    <<"application", <<"application">>>>, <<"interne", <<"interne">>>>,
    <<"d{'}optimisation", <<"d", "optimisation">>>>, <<"du", <<"du">>>>,
    <<"cycle", <<"cycle">>>>, <<"vente.", <<"vente">>>>, <<"Mettre", <<"mettre">>>>,
    <<"place", <<"place">>>>, <<"tableau", <<"tableau">>>>, <<"bord", <<"bord">>>>,
    <<"automatisé", <<"automatise">>>>, <<"la", <<"la">>>>,
    <<"performance.", <<"performance">>>>, <<"Créer", <<"creer">>>>,
    <<"assistant", <<"assistant">>>>, <<"automatiser", <<"automatiser">>>>,
    <<"tâches", <<"taches">>>>, <<"administratives.", <<"administratives">>>>,
    <<"Développer", <<"developper">>>>, <<"solution", <<"solution">>>>,
    <<"recommandation", <<"recommandation">>>>, <<"personnalisée", <<"personnalisee">>>>,
    <<"(produits", <<"produits">>>>, <<"contenus).", <<"contenus">>>>,
    <<"Automatiser", <<"automatiser">>>>, <<"détection", <<"detection">>>>,
    <<"d{'}anomalies", <<"d", "anomalies">>>>, <<"dans", <<"dans">>>>,
    <<"production.", <<"production">>>>, <<"Optimiser", <<"optimiser">>>>,
    <<"maintenance", <<"maintenance">>>>, <<"prédictive", <<"predictive">>>>,
    <<"équipements.", <<"equipements">>>>, <<"Assistance", <<"assistance">>>>, <<":", <<>>>>,
    <<"commercial", <<"commercial">>>>, <<"innovation", <<"innovation">>>>,
    <<"finance-fiscalité", <<"finance", "fiscalite">>>>, <<"management", <<"management">>>>,
    <<"Définir", <<"definir">>>>, <<"actualiser", <<"actualiser">>>>, <<"Data", <<"data">>>>,
    <<"internes", <<"internes">>>>, <<"améliorer", <<"ameliorer">>>>,
    <<"productivité", <<"productivite">>>>, <<"Améliorer", <<"ameliorer">>>>,
    <<"croissance", <<"croissance">>>>, <<"différenciation", <<"differenciation">>>>,
    <<"concurrentielle", <<"concurrentielle">>>>, <<"Mieux", <<"mieux">>>>,
    <<"exploiter", <<"exploiter">>>>, <<"valoriser", <<"valoriser">>>>,
    <<"(data", <<"data">>>>, <<"management)", <<"management">>>>, <<"marge", <<"marge">>>>,
    <<"coûts", <<"couts">>>>, <<"Renforcer", <<"renforcer">>>>,
    <<"satisfaction", <<"satisfaction">>>>, <<"client", <<"client">>>>,
    <<"l{'}expérience", <<"l", "experience">>>>, <<"utilisateur", <<"utilisateur">>>>,
    <<"Gouvernance", <<"gouvernance">>>>, <<"conformité", <<"conformite">>>>,
    <<"(RGPD", <<"rgpd">>>>, <<"AI", <<"ai">>>>, <<"Act", <<"act">>>>,
    <<"éthique)", <<"ethique">>>>, <<"Recruter", <<"recruter">>>>,
    <<"développer", <<"developper">>>>, <<"IA/numériques", <<"ia", "numeriques">>>>,
    <<"Obtenir", <<"obtenir">>>>, <<"proposition", <<"proposition">>>>,
    <<"valeur", <<"valeur">>>>, <<"actualisée", <<"actualisee">>>>, <<"grâce", <<"grace">>>>,
    <<"l{'}IA", <<"l", "ia">>>>, <<"Bénéficier", <<"beneficier">>>>,
    <<"d{'}une", <<"d", "une">>>>, <<"approche", <<"approche">>>>,
    <<"feuille", <<"feuille">>>>, <<"route", <<"route">>>>,
    <<"opérationnelle", <<"operationnelle">>>>, <<"(automatisation", <<"automatisation">>>>,
    <<"process)", <<"process">>>>, <<"Gagner", <<"gagner">>>>, <<"gagner", <<"gagner">>>>,
    <<"temps", <<"temps">>>>, <<"Restaurer", <<"restaurer">>>>,
    <<"augmenter", <<"augmenter">>>>, <<"marges", <<"marges">>>>, <<"mise", <<"mise">>>>,
    <<"{oe}uvre", <<"uvre">>>>, <<"test", <<"test">>>>, <<"exploration", <<"exploration">>>>,
    <<"on", <<"on">>>>, <<"explore", <<"explore">>>>, <<"teste", <<"teste">>>>,
    <<"bof", <<"bof">>>>, <<"POC", <<"poc">>>>, <<"Stratégie", <<"strategie">>>>,
    <<"projet", <<"projet">>>>, <<"pilote", <<"pilote">>>>, <<"structuré", <<"structure">>>>,
    <<"centralisé", <<"centralise">>>>, <<"cloisonné", <<"cloisonne">>>>, <<"0", <<"0">>>>,
    <<"7", <<"7">>>>, <<"99", <<"99">>>>, <<"12", <<"12">>>>, <<"123", <<"123">>>>,
    <<"2.", <<"2">>>>, <<"3)", <<"3">>>>, <<",", <<>>>>, <<";", <<>>>>,
    <<"btob", <<"btob">>>>, <<"crm", <<"crm">>>>, <<"reporting", <<"reporting">>>>,
    <<"l'ia", <<"l", "ia">>>>, <<"true", <<"true">>>>, <<"oui", <<"oui">>>>,
    <<"OUI", <<"oui">>>>, <<"ok", <<"ok">>>>, <<"accord", <<"accord">>>>,
    <<"yes", <<"yes">>>>, <<"j'accepte", <<"j", "accepte">>>>, <<"accepte", <<"accepte">>>>,
    <<"false", <<"false">>>>, <<"a@b.fr", <<"a", "b", "fr">>>>, <<"[object", <<"object">>>>,
    <<"Object]", <<"object">>>>, <<"undefined", <<"undefined">>>>, <<"null", <<"null">>>>,
    <<"1000", <<"1000">>>>, <<"50", <<"50">>>>, <<"3", <<"3">>>>, <<"5", <<"5">>>>,
    <<"6", <<"6">>>>, <<"8", <<"8">>>>, <<"9", <<"9">>>>, <<"10", <<"10">>>>,
    <<"11", <<"11">>>>, <<"21", <<"21">>>>, <<".", <<>>>>, <<")", <<>>>>,
    <<"foo", <<"foo">>>>, <<"d'accord", <<"d", "accord">>>> }

NormTable == [l \in {p[1] : p \in NormTablePairs} |-> (CHOOSE p \in NormTablePairs : p[1] = l)[2]]

\* norm of ensureMultiSelect differs on the lexemes holding an apostrophe, which
\* it deletes instead of turning it into a blank.
NormMultiTablePairs ==
  { <<"l'entreprise", <<"lentreprise">>>>, <<"l'échelle", <<"lechelle">>>>,
    <<"d'implémentation.", <<"dimplementation">>>>, <<"l'innovation.", <<"linnovation">>>>,
    <<"c'est", <<"cest">>>>, <<"d'une", <<"dune">>>>, <<"d'expertise", <<"dexpertise">>>>,
    <<"l'équipe", <<"lequipe">>>>, <<"n'est", <<"nest">>>>,
    <<"d'apprentissage", <<"dapprentissage">>>>, <<"n'y", <<"ny">>>>, <<"d'IA.", <<"dia">>>>,
    <<"d'Information", <<"dinformation">>>>, <<"d{'}optimisation", <<"doptimisation">>>>,
    <<"d{'}anomalies", <<"danomalies">>>>, <<"l{'}expérience", <<"lexperience">>>>,
    <<"l{'}IA", <<"lia">>>>, <<"d{'}une", <<"dune">>>>, <<"l'ia", <<"lia">>>>,
    <<"j'accepte", <<"jaccepte">>>>, <<"d'accord", <<"daccord">>>> }

NormMultiTable == [l \in {p[1] : p \in NormMultiTablePairs} |-> (CHOOSE p \in NormMultiTablePairs : p[1] = l)[2]]

\* The lexemes matching /^\d+$/ and their parseInt.
DigitTablePairs ==
  { <<"1", 1>>, <<"2", 2>>, <<"4", 4>>, <<"0", 0>>, <<"7", 7>>, <<"99", 99>>, <<"12", 12>>,
    <<"123", 123>>, <<"1000", 1000>>, <<"50", 50>>, <<"3", 3>>, <<"5", 5>>, <<"6", 6>>,
    <<"8", 8>>, <<"9", 9>>, <<"10", 10>>, <<"11", 11>>, <<"21", 21>> }

DigitTable == [l \in {p[1] : p \in DigitTablePairs} |-> (CHOOSE p \in DigitTablePairs : p[1] = l)[2]]

\* The lexemes matching /^(\d{1,2})\b/ and the parseInt of the group.
LeadIndexTablePairs ==
  { <<"50-250", 50>>, <<"1-5", 1>>, <<"5-20", 5>>, <<"20-50", 20>>, <<"1:", 1>>, <<"2:", 2>>,
    <<"1", 1>>, <<"3:", 3>>, <<"2", 2>>, <<"4", 4>>, <<"0", 0>>, <<"7", 7>>, <<"99", 99>>,
    <<"12", 12>>, <<"2.", 2>>, <<"3)", 3>>, <<"50", 50>>, <<"3", 3>>, <<"5", 5>>, <<"6", 6>>,
    <<"8", 8>>, <<"9", 9>>, <<"10", 10>>, <<"11", 11>>, <<"21", 21>> }

LeadIndexTable == [l \in {p[1] : p \in LeadIndexTablePairs} |-> (CHOOSE p \in LeadIndexTablePairs : p[1] = l)[2]]

\* The lexemes matching /^\d+[.)-]$/.
NumberedPrefix == { "2.", "3)" }

\* The lexemes holding an @ and what precedes it.
EmailLocalTablePairs ==
  { <<"a@b.fr", "a">> }

EmailLocalTable == [l \in {p[1] : p \in EmailLocalTablePairs} |-> (CHOOSE p \in EmailLocalTablePairs : p[1] = l)[2]]

(***************************************************************************)
(* String helpers.                                                         *)
(***************************************************************************)
RECURSIVE TrimLeft(_)
TrimLeft(w) == IF w # <<>> /\ Head(w) = " " THEN TrimLeft(Tail(w)) ELSE w

RECURSIVE TrimRight(_)
TrimRight(w) ==
  IF w # <<>> /\ w[Len(w)] = " " THEN TrimRight(SubSeq(w, 1, Len(w) - 1)) ELSE w

\* String.prototype.trim
Trim(w) == TrimRight(TrimLeft(w))

RECURSIVE Flatten(_)
Flatten(ss) == IF ss = <<>> THEN <<>> ELSE Head(ss) \o Flatten(Tail(ss))

\* Array.prototype.join(",") of an array of strings.
RECURSIVE JoinComma(_)
JoinComma(a) ==
  IF a = <<>> THEN <<>>
  ELSE IF Len(a) = 1 THEN a[1]
  ELSE a[1] \o <<",">> \o JoinComma(Tail(a))

NumLexeme(n) == CHOOSE l \in DOMAIN DigitTable : DigitTable[l] = n

\* (value ?? '').toString() and String(value ?? '')
JsString(v) ==
  CASE IsUndef(v) -> <<>>
    [] IsStr(v) -> v.str
    [] IsBool(v) -> IF v.bool THEN <<"true">> ELSE <<"false">>
    [] IsNum(v) -> <<NumLexeme(v.num)>>
    [] IsArr(v) -> JoinComma(v.arr)
    [] OTHER -> <<"[object", "Object]">>

\* The normalised string as the sequence of its words (norm of ensureSelect);
\* two normalised strings are equal exactly when these sequences are.
Norm(w) == Flatten([i \in 1..Len(w) |-> NormTable[w[i]]])

\* norm of ensureMultiSelect
NormMulti(w) ==
  Flatten([i \in 1..Len(w) |->
             IF w[i] \in DOMAIN NormMultiTable THEN NormMultiTable[w[i]]
             ELSE NormTable[w[i]]])

Range(s) == {s[i] : i \in 1..Len(s)}

\* /\b(a|b|c)\b/.test(v) on a normalised string, for one-word alternatives
HasWord(v, words) == \E i \in 1..Len(v) : v[i] \in words

\* /\b(a\s+b\s+c)\b/.test(v) on a normalised string
HasPhrase(v, p) ==
  \E i \in 1..Len(v) : i + Len(p) - 1 <= Len(v) /\ SubSeq(v, i, i + Len(p) - 1) = p

\* A regex alternation of words and of phrases.
Matches(v, words, phrases) == HasWord(v, words) \/ \E p \in phrases : HasPhrase(v, p)

\* arr.includes(x) / arr.indexOf(x)
Includes(arr, x) == \E i \in 1..Len(arr) : arr[i] = x

(***************************************************************************)
(* Stage B, single select: ensureSelect.                                   *)
(***************************************************************************)
getAllowed(q) == q.options

hasAutre(q) ==
  /\ q.autreKey # ""
  /\ IF q.triggerAutre # <<>> THEN Includes(getAllowed(q), q.triggerAutre)
     ELSE Includes(getAllowed(q), <<"Autre">>)

\* Variant of autreLabel that yields the empty label.
autreLabelBlank(q) == <<>>

autreLabel(q) == IF q.triggerAutre # <<>> THEN q.triggerAutre ELSE <<"Autre">>

NORMALIZATION_FALLBACKS_BY_NOTION_KEY == EmptyObject

\* The questions on which /^q0[1-5]$/i.test(qid) or the notionKey regex holds.
isQ01toQ05(q) ==
  \/ q.id \in {"q01", "q02", "q03", "q04", "q05"}
  \/ q.notionKey \in {"Maturité -- Stratégie", "Maturité -- Données-Infrastructure",
                      "Maturité -- Compétences", "Maturité -- Gouvernance"}

\* /Donnees|Données/i.test(nk)
isDonneesKey(q) == q.notionKey = "Maturité -- Données-Infrastructure"

\* The keyword tests of the Q01-Q05 heuristic, in source order: the option
\* (1..4) credited, the weight, the one-word and the several-word alternatives.
MaturityRules ==
  << [opt |-> 1, w |-> 2, phrases |-> {},
      words |-> {"explore", "exploration", "test", "pilote", "poc", "debut", "commence"}],
     [opt |-> 1, w |-> 3, words |-> {},
      phrases |-> {<<"pas", "de", "strategie">>, <<"aucun", "cadre">>,
                   <<"rien", "de", "structure">>}],
     [opt |-> 2, w |-> 2, words |-> {"projet", "ponctuel", "quelques"},
      phrases |-> {<<"cas", "d", "usage">>, <<"use", "case">>}],
     [opt |-> 2, w |-> 2, words |-> {},
      phrases |-> {<<"non", "etendu">>, <<"pas", "generalise">>,
                   <<"pas", "a", "l", "echelle">>}],
     [opt |-> 3, w |-> 2, words |-> {"entreprise", "global", "transverse", "deploi"},
      phrases |-> {<<"mise", "en", "place">>, <<"en", "cours">>}],
     [opt |-> 3, w |-> 2, words |-> {"structure", "formalise"},
      phrases |-> {<<"strategie", "claire">>}],
     [opt |-> 4, w |-> 2, phrases |-> {},
      words |-> {"integre", "integration", "aligne", "commercial", "innovation",
                 "avantage", "competitif"}],
     [opt |-> 4, w |-> 1, phrases |-> {},
      words |-> {"stimule", "accelere", "transforme"}] >>

\* The two further tests applied when the notionKey names the data question.
DonneesRules ==
  << [opt |-> 3, w |-> 3, phrases |-> {},
      words |-> {"structure", "consolide", "centralise", "plateforme", "gouvernance"}],
     [opt |-> 1, w |-> 3, phrases |-> {}, words |-> {"cloisonne", "inaccessible"}] >>

RECURSIVE RuleScore(_, _, _)
RuleScore(rules, v, opt) ==
  IF rules = <<>> THEN 0
  ELSE (IF Head(rules).opt = opt /\ Matches(v, Head(rules).words, Head(rules).phrases)
        THEN Head(rules).w ELSE 0) + RuleScore(Tail(rules), v, opt)

\* scoreByIndex after all the add() calls, as a function on 1..4
scoreByIndex(q, v) ==
  [i \in 1..4 |->
     RuleScore(MaturityRules, v, i)
       + (IF isDonneesKey(q) THEN RuleScore(DonneesRules, v, i) ELSE 0)]

\* for (i = 1; i < 4; i++) if (score[i] > score[bestIdx]) bestIdx = i
bestIdx(score) ==
  CHOOSE i \in 1..4 :
    /\ \A j \in 1..4 : score[j] <= score[i]
    /\ \A j \in 1..(i - 1) : score[j] < score[i]

\* optByNorm.get(v): the Map keeps the last option of a given normalised form.
optByNorm(opts, v) ==
  LET hits == {i \in 1..Len(opts) : Norm(opts[i]) = v}
  IN  IF hits = {} THEN <<>> ELSE opts[CHOOSE i \in hits : \A j \in hits : j <= i]

\* inter and union of the token sets of the value and of one option
Overlap(tokens, o) ==
  LET ot == Range(Norm(o))
      inter == Cardinality(tokens \cap ot)
      union == Cardinality(tokens) + Cardinality(ot) - inter
  IN  IF union = 0 THEN [num |-> 0, den |-> 1] ELSE [num |-> inter, den |-> union]

\* Step 7: the first option of the highest overlap ratio (sc > bestScore, from -1)
nearestOption(opts, v) ==
  LET tokens == Range(v)
      sc == [i \in 1..Len(opts) |-> Overlap(tokens, opts[i])]
      Less(a, b) == a.num * b.den < b.num * a.den
  IN  IF opts = <<>> THEN <<>>
      ELSE opts[CHOOSE i \in 1..Len(opts) :
                  /\ \A j \in 1..Len(opts) : ~Less(sc[i], sc[j])
                  /\ \A j \in 1..(i - 1) : Less(sc[j], sc[i])]

\* ensureSelect(q, value): the label returned (val) and base after the call.
ensureSelect(q, value, base) ==
  LET opts == getAllowed(q)
      vRaw == Trim(JsString(value))
      v == Norm(vRaw)
      score == scoreByIndex(q, v)
      fb == Get(NORMALIZATION_FALLBACKS_BY_NOTION_KEY, q.notionKey)
  IN  IF vRaw = <<>> THEN
        [val |-> IF hasAutre(q) THEN autreLabel(q)
                 ELSE IF opts # <<>> THEN opts[1] ELSE <<>>,
         base |-> base]
      ELSE IF Includes(opts, vRaw) THEN [val |-> vRaw, base |-> base]
      ELSE IF /\ Len(vRaw) = 1
              /\ vRaw[1] \in DOMAIN DigitTable
              /\ DigitTable[vRaw[1]] >= 1
              /\ DigitTable[vRaw[1]] <= Len(opts)
        THEN [val |-> opts[DigitTable[vRaw[1]]], base |-> base]
      ELSE IF optByNorm(opts, v) # <<>> THEN [val |-> optByNorm(opts, v), base |-> base]
      ELSE IF isQ01toQ05(q) /\ Len(opts) >= 4 /\ \E i \in 1..4 : score[i] > 0
        THEN [val |-> opts[bestIdx(score)], base |-> base]
      ELSE IF hasAutre(q) THEN
        [val |-> autreLabel(q),
         base |-> IF ~Truthy(Get(base, q.autreKey))
                  THEN Put(base, q.autreKey, Str(vRaw)) ELSE base]
      ELSE IF Truthy(fb) /\ Includes(opts, JsString(fb)) THEN [val |-> JsString(fb), base |-> base]
      ELSE [val |-> nearestOption(opts, v), base |-> base]

(***************************************************************************)
(* Stage B, multi select: ensureMultiSelect.                               *)
(***************************************************************************)
Delimiters == {",", ";", "|"}

\* v.split(/[\n,;|]+/g): the pieces between delimiter lexemes
RECURSIVE SplitTokens(_, _)
SplitTokens(w, cur) ==
  IF w = <<>> THEN <<cur>>
  ELSE IF Head(w) \in Delimiters THEN <<cur>> \o SplitTokens(Tail(w), <<>>)
  ELSE SplitTokens(Tail(w), Append(cur, Head(w)))

\* .map(x => x.trim()).filter(Boolean)
RECURSIVE TrimAndFilter(_)
TrimAndFilter(a) ==
  IF a = <<>> THEN <<>>
  ELSE IF Trim(Head(a)) = <<>> THEN TrimAndFilter(Tail(a))
  ELSE <<Trim(Head(a))>> \o TrimAndFilter(Tail(a))

parseTokens(v) ==
  CASE IsArr(v) -> TrimAndFilter(v.arr)
    [] IsStr(v) -> TrimAndFilter(SplitTokens(v.str, <<>>))
    [] OTHER -> <<>>

\* tokenToOptionByIndex(t): <<>> stands for null
tokenToOptionByIndex(opts, t) ==
  IF t # <<>> /\ t[1] \in DOMAIN LeadIndexTable
     /\ LeadIndexTable[t[1]] >= 1 /\ LeadIndexTable[t[1]] <= Len(opts)
  THEN opts[LeadIndexTable[t[1]]]
  ELSE <<>>

\* t.replace(/^\d+\s*[.)-]\s*/g, '').trim()
stripNumberPrefix(t) ==
  IF t # <<>> /\ t[1] \in NumberedPrefix THEN Trim(Tail(t))
  ELSE IF Len(t) >= 2 /\ t[1] \in DOMAIN DigitTable /\ t[2] \in {".", ")", "-"}
    THEN Trim(Tail(Tail(t)))
  ELSE t

pushAlways(arr, v) == IF v # <<>> THEN Append(arr, v) ELSE arr

\* pushUnique(arr, v), as the array after the call
pushUnique(arr, v) == IF v # <<>> /\ ~Includes(arr, v) THEN Append(arr, v) ELSE arr

\* The for loop over rawTokens
RECURSIVE selectTokens(_, _, _)
selectTokens(opts, tokens, selected) ==
  IF tokens = <<>> THEN selected
  ELSE LET t == Head(tokens)
           byIndex == tokenToOptionByIndex(opts, t)
           t2 == stripNumberPrefix(t)
       IN  selectTokens(opts, Tail(tokens),
             IF byIndex # <<>> THEN pushUnique(selected, byIndex)
             ELSE IF Includes(opts, t) THEN pushUnique(selected, t)
             ELSE IF Includes(opts, t2) THEN pushUnique(selected, t2)
             ELSE selected)

\* Variant of Slice that keeps the whole array.
SliceAll(arr, n) == arr

\* arr.slice(0, n)
Slice(arr, n) == SubSeq(arr, 1, IF Len(arr) < n THEN Len(arr) ELSE n)

\* The questions whose notionKey matches
\* /(Objectifs IA-Digital|Défis prioritaires|Attentes IA-Digital)/i; the
\* catalogue entries carry no questionId, so the qid tests never hold.
isQ17toQ19(q) ==
  q.notionKey \in {"Objectifs IA-Digital", "Défis prioritaires (max 3)",
                   "Attentes IA-Digital"}

\* The keyword tests per notionKey, in source order: the option (1-based)
\* credited, the weight, the alternatives, and the words of an enclosing if.
ObjectifsRules ==
  << [opt |-> 1, w |-> 3, needs |-> {}, phrases |-> {<<"cycle", "de", "vente">>},
      words |-> {"vente", "crm", "prospection", "pipeline", "commercial"}],
     [opt |-> 2, w |-> 3, needs |-> {}, phrases |-> {<<"tableau", "de", "bord">>},
      words |-> {"dashboard", "kpi", "reporting", "pilotage"}],
     [opt |-> 3, w |-> 3, needs |-> {}, phrases |-> {},
      words |-> {"assistant", "automatiser", "administratif", "factur", "compta", "rh"}],
     [opt |-> 4, w |-> 3, needs |-> {}, phrases |-> {},
      words |-> {"recommandation", "personnalis", "produit", "contenu"}],
     [opt |-> 5, w |-> 3, needs |-> {}, phrases |-> {},
      words |-> {"anomalie", "qualite", "defaut", "controle", "production"}],
     [opt |-> 6, w |-> 3, needs |-> {}, phrases |-> {},
      words |-> {"maintenance", "predict", "equipement", "panne"}],
     [opt |-> 7, w |-> 2, needs |-> {"strategie"}, phrases |-> {}, words |-> {"commercial"}],
     [opt |-> 8, w |-> 2, needs |-> {"strategie"}, phrases |-> {}, words |-> {"innovation"}],
     [opt |-> 9, w |-> 2, needs |-> {"strategie"}, phrases |-> {},
      words |-> {"finance", "fiscal"}],
     [opt |-> 10, w |-> 2, needs |-> {"strategie"}, phrases |-> {},
      words |-> {"management", "organisation"}] >>

DefisRules ==
  << [opt |-> 1, w |-> 3, needs |-> {}, phrases |-> {}, words |-> {"strategie", "data"}],
     [opt |-> 2, w |-> 3, needs |-> {}, phrases |-> {},
      words |-> {"process", "productiv", "automatis"}],
     [opt |-> 3, w |-> 3, needs |-> {}, phrases |-> {},
      words |-> {"croissance", "commercial", "differenci", "concurr"}],
     [opt |-> 4, w |-> 3, needs |-> {}, phrases |-> {<<"data", "management">>},
      words |-> {"donnees", "valoris", "qualite"}],
     [opt |-> 5, w |-> 3, needs |-> {}, phrases |-> {}, words |-> {"marge", "cout"}],
     [opt |-> 6, w |-> 3, needs |-> {}, phrases |-> {},
      words |-> {"satisfaction", "client", "experience"}],
     [opt |-> 7, w |-> 3, needs |-> {}, phrases |-> {<<"ai", "act">>},
      words |-> {"rgpd", "ethique", "conform"}],
     [opt |-> 8, w |-> 3, needs |-> {}, phrases |-> {},
      words |-> {"recrut", "competenc", "formation", "skill"}] >>

AttentesRules ==
  << [opt |-> 1, w |-> 3, needs |-> {}, phrases |-> {<<"proposition", "de", "valeur">>},
      words |-> {"valeur"}],
     [opt |-> 2, w |-> 3, needs |-> {}, phrases |-> {<<"feuille", "de", "route">>},
      words |-> {"roadmap", "strateg"}],
     [opt |-> 3, w |-> 3, needs |-> {}, phrases |-> {},
      words |-> {"operationnel", "automatis", "process"}],
     [opt |-> 4, w |-> 3, needs |-> {}, phrases |-> {<<"gagner", "du", "temps">>},
      words |-> {"productiv", "temps"}],
     [opt |-> 5, w |-> 3, needs |-> {}, phrases |-> {}, words |-> {"marge"}] >>

multiRules(q) ==
  CASE q.notionKey = "Objectifs IA-Digital" -> ObjectifsRules
    [] q.notionKey = "Défis prioritaires (max 3)" -> DefisRules
    [] q.notionKey = "Attentes IA-Digital" -> AttentesRules
    [] OTHER -> <<>>

RECURSIVE MultiRuleScore(_, _, _)
MultiRuleScore(rules, t, opt) ==
  IF rules = <<>> THEN 0
  ELSE LET r == Head(rules)
       IN  (IF /\ r.opt = opt
               /\ (r.needs = {} \/ HasWord(t, r.needs))
               /\ Matches(t, r.words, r.phrases)
            THEN r.w ELSE 0) + MultiRuleScore(Tail(rules), t, opt)

\* scored, with add() ignoring an index outside the options
scored(q, t) == [i \in 1..Len(getAllowed(q)) |-> MultiRuleScore(multiRules(q), t, i)]

\* .filter(score > 0).sort((a, b) => b.score - a.score): the sort is stable, so
\* equal scores keep the option order.
RECURSIVE rankedIndexes(_, _)
rankedIndexes(score, left) ==
  IF left = {} THEN <<>>
  ELSE LET top == CHOOSE i \in left :
                    \A j \in left : score[j] < score[i] \/ (score[j] = score[i] /\ i <= j)
       IN  <<top>> \o rankedIndexes(score, left \ {top})

\* ensureMultiSelect(q, value): the list returned (val) and base after the call.
ensureMultiSelect(q, value, base) ==
  LET opts == getAllowed(q)
      maxItems == IF q.maxItems # 0 THEN q.maxItems ELSE Len(opts)
      selected == selectTokens(opts, parseTokens(value), <<>>)
      held == Get(base, q.autreKey)
      autreText ==
        IF q.autreKey # "" /\ IsStr(held) /\ Trim(held.str) # <<>> THEN Trim(held.str)
        ELSE IF IsStr(value) THEN Trim(value.str) ELSE <<>>
      score == scored(q, NormMulti(autreText))
      order == rankedIndexes(score, {i \in 1..Len(opts) : score[i] > 0})
      ranked == Slice([i \in 1..Len(order) |-> opts[order[i]]], maxItems)
      stored == IF autreText # <<>> THEN autreText
                ELSE IF Truthy(value) THEN Trim(JsString(value)) ELSE <<>>
  IN  IF selected # <<>> THEN [val |-> Slice(selected, maxItems), base |-> base]
      ELSE IF isQ17toQ19(q) /\ autreText # <<>> /\ ranked # <<>>
        THEN [val |-> ranked, base |-> base]
      ELSE IF hasAutre(q) THEN
        [val |-> <<autreLabel(q)>>,
         base |-> IF q.autreKey # "" /\ ~Truthy(Get(base, q.autreKey))
                  THEN Put(base, q.autreKey, Str(stored)) ELSE base]
      ELSE [val |-> <<>>, base |-> base]

\* The lexemes that toLowerCase changes, and their lower-case form.
LowerTablePairs ==
  { <<"Pas", "pas">>, <<"Nous", "nous">>, <<"IA", "ia">>, <<"Notre", "notre">>,
    <<"Les", "les">>, <<"Nos", "nos">>, <<"Très", "très">>, <<"Basiques.", "basiques.">>,
    <<"Quelques", "quelques">>, <<"Modérées.", "modérées.">>,
    <<"IA-Numérique", "ia-numérique">>, <<"Élevées.", "élevées.">>,
    <<"Expertise", "expertise">>, <<"R&D", "r&d">>, <<"Objectif:", "objectif:">>,
    <<"Il", "il">>, <<"d'IA.", "d'ia.">>, <<"ROI", "roi">>, <<"Dirigeant", "dirigeant">>,
    <<"Responsable", "responsable">>, <<"Collaborateur", "collaborateur">>,
    <<"Autre", "autre">>, <<"Direction", "direction">>, <<"Générale", "générale">>,
    <<"Financière", "financière">>, <<"Comptable", "comptable">>,
    <<"Commerciale", "commerciale">>, <<"Ventes", "ventes">>, <<"Marketing", "marketing">>,
    <<"Communication", "communication">>, <<"Produit", "produit">>,
    <<"Innovation", "innovation">>, <<"Opérations", "opérations">>,
    <<"Logistique", "logistique">>, <<"Ressources", "ressources">>,
    <<"Humaines", "humaines">>, <<"Informatique", "informatique">>,
    <<"Systèmes", "systèmes">>, <<"d'Information", "d'information">>,
    <<"Président", "président">>, <<"CEO", "ceo">>, <<"Directeur", "directeur">>,
    <<"Général", "général">>, <<"Financier", "financier">>, <<"(CFO)", "(cfo)">>,
    <<"(COO)", "(coo)">>, <<"Technique", "technique">>, <<"CTO", "cto">>, <<"DSI", "dsi">>,
    <<"CMO", "cmo">>, <<"Commercial", "commercial">>, <<"Chef", "chef">>,
    <<"Supply", "supply">>, <<"Chain", "chain">>, <<"ADV", "adv">>,
    <<"Administration", "administration">>,
    <<"Agriculture-sylviculture-pêche", "agriculture-sylviculture-pêche">>,
    <<"Industries", "industries">>, <<"Industrie", "industrie">>,
    <<"Production-distribution", "production-distribution">>,
    <<"Construction", "construction">>, <<"Commerce", "commerce">>,
    <<"Transports-entreposage", "transports-entreposage">>,
    <<"Hébergement-restauration", "hébergement-restauration">>,
    <<"Information-communication", "information-communication">>,
    <<"Finance-banque-assurance", "finance-banque-assurance">>,
    <<"Immobilier", "immobilier">>, <<"Science-technique", "science-technique">>,
    <<"Service", "service">>, <<"Enseignement", "enseignement">>,
    <<"Santé-action", "santé-action">>,
    <<"Art-spectacle-activité_récréative", "art-spectacle-activité_récréative">>,
    <<"Autres", "autres">>, <<"Agro-alimentaire", "agro-alimentaire">>,
    <<"Santé/Biotech", "santé/biotech">>, <<"Automobile", "automobile">>,
    <<"Conseil", "conseil">>, <<"Stratégique", "stratégique">>,
    <<"Aéronautique", "aéronautique">>, <<"IT/SaaS", "it/saas">>,
    <<"Finance/Assurance", "finance/assurance">>, <<"Énergie", "énergie">>,
    <<"Éducation", "éducation">>, <<"Retail", "retail">>, <<"E-commerce", "e-commerce">>,
    <<"M{EUR}", "m{EUR}">>, <<"Produits", "produits">>, <<"Services", "services">>,
    <<"Solutions", "solutions">>, <<"BtoB", "btob">>, <<"BtoC", "btoc">>,
    <<"Local", "local">>, <<"Régional", "régional">>, <<"National", "national">>,
    <<"International", "international">>, <<"Concevoir", "concevoir">>,
    <<"Mettre", "mettre">>, <<"Créer", "créer">>, <<"Développer", "développer">>,
    <<"Automatiser", "automatiser">>, <<"Optimiser", "optimiser">>,
    <<"Assistance", "assistance">>, <<"Définir", "définir">>, <<"Data", "data">>,
    <<"Améliorer", "améliorer">>, <<"Mieux", "mieux">>, <<"Renforcer", "renforcer">>,
    <<"Gouvernance", "gouvernance">>, <<"(RGPD", "(rgpd">>, <<"AI", "ai">>, <<"Act", "act">>,
    <<"Recruter", "recruter">>, <<"IA/numériques", "ia/numériques">>,
    <<"Obtenir", "obtenir">>, <<"l{'}IA", "l{'}ia">>, <<"Bénéficier", "bénéficier">>,
    <<"Gagner", "gagner">>, <<"Restaurer", "restaurer">>, <<"POC", "poc">>,
    <<"Stratégie", "stratégie">>, <<"OUI", "oui">>, <<"Object]", "object]">>,
    <<"Désolé", "désolé">> }

LowerTable == [l \in {p[1] : p \in LowerTablePairs} |-> (CHOOSE p \in LowerTablePairs : p[1] = l)[2]]

(***************************************************************************)
(* Stage B, boolean: ensureBool.                                           *)
(***************************************************************************)
toLowerCase(w) ==
  [i \in 1..Len(w) |-> IF w[i] \in DOMAIN LowerTable THEN LowerTable[w[i]] ELSE w[i]]

ensureBool(value) ==
  IF IsBool(value) THEN value.bool
  ELSE Trim(toLowerCase(JsString(value))) \in
         {<<"true">>, <<"oui">>, <<"ok">>, <<"accord">>, <<"yes">>, <<"j'accepte">>,
          <<"accepte">>}

(***************************************************************************)
(* Stage B: buildGuaranteedPayload(rawData, transcript, candidate).  The   *)
(* transcript parameter is never read.  sid is currentSessionIdRef.current *)
(* and nowISO is new Date().toISOString() at the time of the call.         *)
(***************************************************************************)
\* One iteration of the loop "for (const q of QUESTIONS)".
enforceQuestion(q, base) ==
  LET current == Get(base, q.notionKey)
  IN  CASE q.type = "array" ->
             LET r == ensureMultiSelect(q, current, base)
             IN  Put(r.base, q.notionKey, Arr(r.val))
        [] q.type = "bool" -> Put(base, q.notionKey, Bool(ensureBool(current)))
        [] q.type = "select" ->
             LET r == ensureSelect(q, current, base)
             IN  Put(r.base, q.notionKey, Str(r.val))
        [] OTHER -> IF IsUndef(current) THEN Put(base, q.notionKey, Str(<<>>)) ELSE base

\* The loop from the i-th question on.  Every iteration assigns
\* base[q.notionKey]; the iteration is evaluated before the next one starts.
RECURSIVE enforceFrom(_, _)
enforceFrom(i, base) ==
  IF i > Len(QUESTIONS) THEN base
  ELSE LET next == enforceQuestion(QUESTIONS[i], base)
       IN  IF QUESTIONS[i].notionKey \in DOMAIN next THEN enforceFrom(i + 1, next) ELSE next

\* String(email).split('@')[0]
RECURSIVE beforeAt(_)
beforeAt(w) ==
  IF w = <<>> THEN <<>>
  ELSE IF Head(w) \in DOMAIN EmailLocalTable THEN <<EmailLocalTable[Head(w)]>>
  ELSE <<Head(w)>> \o beforeAt(Tail(w))

Or(a, b) == IF Truthy(a) THEN a ELSE b

\* Variant of attachMeta that writes the time stamp under the key of q20.
attachMetaStamped(base, sid, nowISO) ==
  Put(Put(base, "session_id", sid), "e-mail répondant", nowISO)

\* The "Champs meta" block.
attachMeta(base, sid, nowISO) ==
  LET b1 == Put(Put(base, "session_id", sid), "source", Str(SOURCE_TAG))
      b2 == Put(b1, "Date soumission", Or(Get(b1, "Date soumission"), nowISO))
      b3 == Put(b2, "'Date soumission'",
                Or(Get(b2, "'Date soumission'"), Get(b2, "Date soumission")))
      b4 == Put(b3, "executionMode",
                Or(Get(b3, "executionMode"), Str(<<"production_guarded">>)))
      email == Get(b4, "e-mail répondant")
  IN  IF /\ ~Truthy(Get(b4, "Nom soumission"))
         /\ IsStr(email)
         /\ \E i \in 1..Len(email.str) : email.str[i] \in DOMAIN EmailLocalTable
      THEN Put(b4, "Nom soumission", Str(beforeAt(email.str)))
      ELSE b4

\* candidate is Undef (null) or an object.
buildGuaranteedPayload(rawData, candidate, sid, nowISO) ==
  LET base == Spread(rawData, IF IsUndef(candidate) THEN EmptyObject ELSE candidate)
  IN  attachMeta(enforceFrom(1, base), sid, nowISO)

(***************************************************************************)
(* State.                                                                  *)
(***************************************************************************)
VARIABLES
  rawData,                  \* Stage B under test: the raw-answer map
  candidate,                \* Stage B under test: the candidate (Undef is null)
  runs,                     \* Stage B under test: the calls made, oldest first
  clock,                    \* Date.now()
  nextStartTimeRef,         \* nextStartTimeRef.current
  sourcesRef,               \* sourcesRef.current: the sources started since the last clear
  audioTime,                \* outputAudioContextRef.current.currentTime
  decodes,                  \* the decodeAudioData calls of onmessage, oldest first
  sessions,                 \* the sessions state, newest first
  sessionsRef,              \* sessionsRef.current: the sessions of the last render
  currentSessionId,         \* the currentSessionId state (Undef is null)
  currentSessionIdRef,      \* currentSessionIdRef.current
  renderedSessionId,        \* currentSessionId as of the last render
  storedSessionId,          \* localStorage amai_current_id (Undef when absent)
  isPendingFinalSpeechRef,  \* isPendingFinalSpeechRef.current
  isActive,                 \* the isActive state
  sessionRef,               \* sessionRef.current: "null", a "live" or a "closed" live session
  liveChannels,             \* the live sessions connected and not closed
  silenceTimerRef,          \* the silence timer is pending
  finishTimers,             \* the pending timers of the final turn
  archiveTimer,             \* the auto-archive timer is pending
  submissions,              \* the calls of submitToWebhook, oldest first
  submissionStatus,         \* the submissionStatus state
  errorMsg,                 \* the errorMsg state ("null" is null)
  sessionPromiseRef,        \* sessionPromiseRef.current: "null", a "pending" or a "resolved" promise
  connects,                 \* the ai.live.connect calls not resolved yet, oldest first
  mediaStreamRef,           \* mediaStreamRef.current holds a stream
  captureStreams,           \* the microphone streams whose tracks run
  closureIsActive,          \* isActive as the handlers of the live session captured it
  closureSession,           \* the id of sessionToUse as these handlers captured it
  currentInputTextRef,      \* currentInputTextRef.current: what the user said in this turn
  currentOutputTextRef,     \* currentOutputTextRef.current: what the agent said in this turn
  lastText,                 \* the text the last step sent to a live session
  savedSessions,            \* localStorage amai_audit_v2_sessions
  mounted,                  \* App is "loading", "mounted" or "failed"
  request,                  \* api/normalize: the request the handler is called with
  response                  \* api/normalize: the response of the handler

varsB == <<rawData, candidate, runs>>

varsAudio == <<nextStartTimeRef, sourcesRef, audioTime, decodes>>

varsSession ==
  <<sessions, sessionsRef, currentSessionId, renderedSessionId, storedSessionId,
    isPendingFinalSpeechRef, isActive, sessionRef, liveChannels, silenceTimerRef,
    finishTimers, archiveTimer>>

varsSubmit == <<submissions, submissionStatus, errorMsg>>

varsStart == <<sessionPromiseRef, connects, mediaStreamRef, captureStreams, closureIsActive,
    closureSession, currentInputTextRef, currentOutputTextRef>>

varsLoad == <<savedSessions, mounted, request, response>>

vars ==
  <<varsB, varsAudio, varsSession, varsSubmit, clock, currentSessionIdRef, varsStart, varsLoad,
    lastText>>

(***************************************************************************)
(* The clock.  Date.now().toString() of createNewSession and               *)
(* new Date().toISOString() of buildGuaranteedPayload.                     *)
(***************************************************************************)
MaxClock == 2

IsoInstants ==
  << "2026-01-01T00:00:00.001Z", "2026-01-01T00:00:00.002Z", "2026-01-01T00:00:00.003Z",
     "2026-01-01T00:00:00.004Z", "2026-01-01T00:00:00.005Z", "2026-01-01T00:00:00.006Z",
     "2026-01-01T00:00:00.007Z", "2026-01-01T00:00:00.008Z", "2026-01-01T00:00:00.009Z" >>

toISOString(t) == Str(<<IsoInstants[t]>>)

DateNowToString(t) == Str(<<NumLexeme(t)>>)

(***************************************************************************)
(* Sample inputs of Stage B.  A raw-answer map holds one answer (and, for  *)
(* a question with an autreKey, possibly its free text); a candidate is    *)
(* null, empty, or overrides that answer.                                  *)
(***************************************************************************)
SampleTexts ==
  { <<>>, <<" ">>, <<"bof">>, <<"2">>, <<" ", "2", " ">>, <<"0">>, <<"7">>, <<"99">>,
    <<"en", "cours", "de", "mise", "en", "{oe}uvre">>,
    <<"nous", "sommes", "en", "cours", "de", "test">>,
    <<"exploration", "en", "cours">>,
    <<"on", "teste", "un", "peu", "à", "petite", "échelle">>,
    <<"pas", "de", "stratégie", "mais", "un", "projet", "pilote", "en", "cours">>,
    <<"Stratégie", "claire">>,
    <<"structuré", "et", "centralisé">>,
    <<"cloisonné", "en", "cours">>,
    <<"btob">>, <<"1000">>,
    <<"2", ",", "4">>, <<"2", ";", " ", "3)", "|", "foo">>,
    <<"crm", "et", "reporting">>, <<"marge">>,
    <<"l'ia", "c'est", "la", "stratégie">>,
    <<"OUI">>, <<"j'accepte">>, <<"d'accord">>, <<"non">>, <<"true">>,
    <<"a@b.fr">>, <<"Autre">> }

SampleValues ==
  {Undef, Num(2), Num(0), Bool(TRUE), Bool(FALSE), Obj, Arr(<<>>),
   Arr(<< <<"2">>, <<"4">> >>), Arr(<< <<"2", ",", "4">> >>),
   Arr(<< <<"1">>, <<"2">>, <<"3">>, <<"4">>, <<"5">>, <<"6">>, <<"8">>, <<"9">> >>),
   Arr(<< <<"bof">>, <<" ">> >>), Arr(<< <<"99">>, <<"0">> >>)}
    \cup {Str(t) : t \in SampleTexts}

\* Values spelling the options of the question themselves.
OptionValues(q) ==
  LET opts == getAllowed(q)
  IN  IF opts = <<>> THEN {}
      ELSE {Str(opts[1]), Str(opts[Len(opts)]), Arr(<<opts[Len(opts)]>>),
            Arr(<<opts[2], opts[1], opts[2]>>), Arr(<<(<<"2.">> \o opts[1])>>),
            Str(opts[1] \o <<",">> \o opts[2])}

RawSamples(q) == SampleValues \cup OptionValues(q)

AutreSamples(q) == IF q.autreKey = "" THEN {Undef} ELSE {Undef, Str(<<"crm", "et", "marge">>)}

CandidateValues(q) ==
  {Str(<<>>), Str(<<"bof">>), Num(99), Obj}
    \cup (IF getAllowed(q) = <<>> THEN {} ELSE {Str(getAllowed(q)[2])})

\* { [key]: v } where an undefined property is left out
Single(key, v) == IF IsUndef(v) THEN EmptyObject ELSE [k \in {key} |-> v]

\* The raw-answer maps: one answer to one question, with or without its free text.
RawDataFor(q, values) ==
  {Spread(Single(q.notionKey, v), Single(q.autreKey, a)) : v \in values, a \in AutreSamples(q)}

\* The inputs of a call: every sample answer with a null candidate, and the
\* absent and the unmatched answer with every candidate.
InputsFor(q) ==
  {[rawData |-> r, candidate |-> Undef] : r \in RawDataFor(q, RawSamples(q))}
    \cup {[rawData |-> r, candidate |-> c] :
            r \in RawDataFor(q, {Undef, Str(<<"bof">>)}),
            c \in {EmptyObject} \cup {Single(q.notionKey, v) : v \in CandidateValues(q)}}

InputSamples == UNION {InputsFor(QUESTIONS[i]) : i \in 1..Len(QUESTIONS)}

SessionIds == {Undef, DateNowToString(1)}

(***************************************************************************)
(* Stage B as a state machine: the inputs are drawn once, the clock and    *)
(* the current session change freely, buildGuaranteedPayload is called.    *)
(***************************************************************************)
MaxRuns == 2

\* The state of the other parts of the program while one part is exercised.
IdleStageB == rawData = EmptyObject /\ candidate = Undef /\ runs = <<>>

IdleAudio == nextStartTimeRef = 0 /\ sourcesRef = <<>> /\ audioTime = 0 /\ decodes = <<>>

IdleSession ==
  /\ sessions = <<>> /\ sessionsRef = <<>>
  /\ currentSessionId = Undef /\ renderedSessionId = Undef /\ storedSessionId = Undef
  /\ isPendingFinalSpeechRef = FALSE /\ isActive = FALSE
  /\ sessionRef = "null" /\ liveChannels = 0
  /\ silenceTimerRef = FALSE /\ finishTimers = 0 /\ archiveTimer = FALSE

IdleSubmit == submissions = <<>> /\ submissionStatus = "idle" /\ errorMsg = "null"

\* The step sent no text.
NoText == [event |-> "none", id |-> "", count |-> 0]

IdleStart ==
  /\ sessionPromiseRef = "null" /\ connects = <<>>
  /\ mediaStreamRef = FALSE /\ captureStreams = 0
  /\ currentInputTextRef = <<>> /\ currentOutputTextRef = <<>>
  /\ closureIsActive = FALSE /\ closureSession = Undef /\ lastText = NoText

\* The content of a localStorage key as JSON.parse takes it: the key is
\* "absent", or its text is "empty", "truncated" JSON, the JSON "null", or
\* the JSON "array" of the list.
AbsentItem == [text |-> "absent", list |-> <<>>]

\* After the first render of a page that found no sessions.
\* api/normalize before a request arrived.
NoRequest == [method |-> "none"]

NoResponse == [status |-> 0]

IdleServer == request = NoRequest /\ response = NoResponse

IdleLoad ==
  /\ savedSessions = [text |-> "array", list |-> <<>>] /\ mounted = "mounted"
  /\ IdleServer

InitStageB ==
  /\ \E inp \in InputSamples : rawData = inp.rawData /\ candidate = inp.candidate
  /\ runs = <<>>
  /\ clock = 1
  /\ currentSessionIdRef \in SessionIds
  /\ IdleAudio /\ IdleSession /\ IdleSubmit /\ IdleStart /\ IdleLoad

RunStageB ==
  /\ Len(runs) < MaxRuns
  /\ runs' = Append(runs,
               [rawData |-> rawData, candidate |-> candidate,
                sid |-> currentSessionIdRef, at |-> clock,
                payload |-> buildGuaranteedPayload(rawData, candidate, currentSessionIdRef,
                                                   toISOString(clock))])
  /\ UNCHANGED <<rawData, candidate, clock, currentSessionIdRef>>
  /\ lastText' = NoText
  /\ UNCHANGED <<varsAudio, varsSession, varsSubmit, varsStart, varsLoad>>

Tick ==
  /\ clock < MaxClock
  /\ clock' = clock + 1
  /\ lastText' = NoText /\ UNCHANGED <<varsB, varsStart, varsLoad, currentSessionIdRef, varsAudio, varsSession, varsSubmit>>

SwitchSession ==
  /\ \E s \in SessionIds \ {currentSessionIdRef} : currentSessionIdRef' = s
  /\ lastText' = NoText /\ UNCHANGED <<varsB, varsStart, varsLoad, clock, varsAudio, varsSession, varsSubmit>>

NextB == RunStageB \/ Tick \/ SwitchSession

SpecB == InitStageB /\ [][NextB]_vars

(***************************************************************************)
(* Properties of Stage B.                                                  *)
(***************************************************************************)
\* The constraint of the kind of question q on the entry of payload p.
SchemaValid(q, p) ==
  /\ q.notionKey \in DOMAIN p
  /\ LET v == p[q.notionKey]
     IN  CASE q.type = "select" -> IsStr(v) /\ Includes(getAllowed(q), v.str)
           [] q.type = "array" ->
                /\ IsArr(v)
                /\ Len(v.arr) <= q.maxItems
                /\ \A i \in 1..Len(v.arr) : Includes(getAllowed(q), v.arr[i])
           [] q.type = "bool" -> IsBool(v) /\ v.bool \in BOOLEAN
           [] OTHER -> ~IsUndef(v)

\* C1: every payload built by Stage B, whatever the raw-answer map and the
\* candidate (null, partial or malformed), holds an entry for every schema key,
\* and the entry satisfies its kind: a select value is an allowed option, a
\* multi-select value is a list of allowed options no longer than the
\* question's maximum, a boolean value is true or false.
C1_SchemaClosure ==
  \A i \in 1..Len(runs) : \A j \in 1..Len(QUESTIONS) :
    SchemaValid(QUESTIONS[j], runs[i].payload)

\* A call was made with a candidate whose entry breaks the kind constraint, or
\* with a raw list longer than the maximum, and the payload was built.
C1_Witness ==
  /\ Len(runs) > 0
  /\ \E j \in 1..Len(QUESTIONS) :
       LET q == QUESTIONS[j]
           merged == Spread(rawData, IF IsUndef(candidate) THEN EmptyObject ELSE candidate)
       IN  /\ q.type \in {"select", "array", "bool"}
           /\ q.notionKey \in DOMAIN merged
           /\ ~IsUndef(candidate) /\ q.notionKey \in DOMAIN candidate
           /\ ~SchemaValid(q, merged)
           /\ SchemaValid(q, runs[1].payload)

\* C6: two calls of Stage B on the same raw answers and the same candidate
\* give the same value to every schema entry, whatever the clock and the
\* current session at each call and whatever calls were made before.
C6_Determinism ==
  \A i, j \in 1..Len(runs) :
    (runs[i].rawData = runs[j].rawData /\ runs[i].candidate = runs[j].candidate)
      => \A k \in 1..Len(QUESTIONS) :
           Get(runs[i].payload, QUESTIONS[k].notionKey)
             = Get(runs[j].payload, QUESTIONS[k].notionKey)

\* Two calls on the same inputs were made at different times under different
\* current sessions, and their metadata differ.
C6_Witness ==
  \E i, j \in 1..Len(runs) :
    /\ i < j
    /\ runs[i].rawData = runs[j].rawData /\ runs[i].candidate = runs[j].candidate
    /\ runs[i].at # runs[j].at
    /\ runs[i].sid # runs[j].sid
    /\ runs[i].payload["Date soumission"] # runs[j].payload["Date soumission"]
    /\ runs[i].payload["session_id"] # runs[j].payload["session_id"]

\* A raw answer that is present and is neither the empty text nor the empty list.
NonEmptyRaw(v) == ~IsUndef(v) /\ v # Str(<<>>) /\ v # Arr(<<>>)

\* The entry of q in payload p is not empty: a non-empty label, a non-empty
\* list of non-empty labels, a boolean, or the raw value itself.
NonEmptyEntry(q, p, raw) ==
  LET v == p[q.notionKey]
  IN  CASE q.type = "select" -> IsStr(v) /\ v.str # <<>>
        [] q.type = "array" ->
             IsArr(v) /\ v.arr # <<>> /\ \A i \in 1..Len(v.arr) : v.arr[i] # <<>>
        [] q.type = "bool" -> IsBool(v)
        [] OTHER -> v = raw

\* C7: when the candidate is null, every schema entry whose raw answer is not
\* empty gets a schema-valid and non-empty value in the payload.
C7_FallbackIndependence ==
  \A i \in 1..Len(runs) :
    IsUndef(runs[i].candidate) =>
      \A j \in 1..Len(QUESTIONS) :
        LET q == QUESTIONS[j]
            raw == Get(runs[i].rawData, q.notionKey)
        IN  NonEmptyRaw(raw) =>
              SchemaValid(q, runs[i].payload) /\ NonEmptyEntry(q, runs[i].payload, raw)

\* A call with a null candidate on a free text that is no option of a select
\* question with an Autre option: the fallback chose the Autre label.
C7_Witness ==
  /\ Len(runs) > 0 /\ IsUndef(candidate)
  /\ \E j \in 1..Len(QUESTIONS) :
       LET q == QUESTIONS[j]
           raw == Get(rawData, q.notionKey)
       IN  /\ q.type = "select" /\ hasAutre(q)
           /\ IsStr(raw) /\ Trim(raw.str) # <<>>
           /\ ~Includes(getAllowed(q), raw.str)
           /\ runs[1].payload[q.notionKey] = Str(autreLabel(q))

\* The text holds "en cours", the deployment index of SEMANTIC_PRIORITY_RULES
\* that the keyword scoring of ensureSelect credits to the third option.
HasMaturityKeyword(w) == HasPhrase(Norm(w), <<"en", "cours">>)

\* C8: on the maturity questions q01 to q05, a text that holds a deployment or
\* maturity keyword never resolves to the first option of the question.
C8_MaturityBiasGuard ==
  \A i \in 1..Len(runs) : \A j \in 1..5 :
    LET q == QUESTIONS[j]
        text == Get(runs[i].rawData, q.notionKey)
    IN  (IsUndef(runs[i].candidate) /\ IsStr(text) /\ HasMaturityKeyword(text.str))
          => runs[i].payload[q.notionKey] # Str(getAllowed(q)[1])

(***************************************************************************)
(* Playback.  The audio branch of onmessage schedules one decoded buffer;  *)
(* stopAllAudio stops and forgets the sources.  Times are whole ticks of   *)
(* the output context's clock.                                             *)
(***************************************************************************)
MaxSources == 3

MaxAudioTime == 4

Durations == {1, 2}

Max(a, b) == IF a >= b THEN a ELSE b

scheduleStartNow(nextStart, now) == now

\* Math.max(nextStartTimeRef.current, outputAudioContextRef.current.currentTime)
scheduleStart(nextStart, now) == Max(nextStart, now)

\* One audio chunk of duration d is decoded, started and remembered.
ScheduleBuffer(d) ==
  LET start == scheduleStart(nextStartTimeRef, audioTime)
  IN  /\ Len(sourcesRef) < MaxSources
      /\ silenceTimerRef' = FALSE
      /\ sourcesRef' = Append(sourcesRef, [start |-> start, duration |-> d, at |-> audioTime])
      /\ nextStartTimeRef' = start + d
      /\ UNCHANGED <<audioTime, decodes>>

stopAllAudioKeepCursor ==
  /\ sourcesRef' = <<>>
  /\ UNCHANGED <<nextStartTimeRef, audioTime, decodes>>

stopAllAudio ==
  /\ sourcesRef' = <<>>
  /\ nextStartTimeRef' = 0
  /\ UNCHANGED <<audioTime, decodes>>

\* The "interrupted" branch of onmessage.
Interrupted == stopAllAudio /\ UNCHANGED silenceTimerRef

\* The output context's clock runs.
AudioClock ==
  /\ audioTime < MaxAudioTime
  /\ audioTime' = audioTime + 1
  /\ UNCHANGED <<nextStartTimeRef, sourcesRef, silenceTimerRef, decodes>>

UnchangedButAudio ==
  lastText' = NoText /\ UNCHANGED <<varsB, varsStart, varsLoad, varsSubmit, clock, currentSessionIdRef, sessions, sessionsRef,
              currentSessionId, renderedSessionId, storedSessionId, isPendingFinalSpeechRef,
              isActive, sessionRef, liveChannels, finishTimers, archiveTimer>>

InitAudio ==
  /\ IdleStageB /\ IdleAudio /\ IdleSession /\ IdleSubmit /\ IdleStart /\ IdleLoad
  /\ clock = 1
  /\ currentSessionIdRef = Undef

NextAudio ==
  \/ (\E d \in Durations : ScheduleBuffer(d)) /\ UnchangedButAudio
  \/ Interrupted /\ UnchangedButAudio
  \/ AudioClock /\ UnchangedButAudio

SpecAudio == InitAudio /\ [][NextAudio]_vars

\* The end of playback of the k-th source started since the last clear.
EndOf(k) == sourcesRef[k].start + sourcesRef[k].duration

\* C9: of the buffers scheduled one after the other with no interruption in
\* between, each starts no earlier than the previous one ends, starts exactly
\* when the previous one ends if the context's clock had not passed that
\* instant when it was scheduled, and no start time is below the one before.
C9_GaplessPlayback ==
  \A k \in 2..Len(sourcesRef) :
    /\ sourcesRef[k].start >= EndOf(k - 1)
    /\ sourcesRef[k].at <= EndOf(k - 1) => sourcesRef[k].start = EndOf(k - 1)
    /\ sourcesRef[k].start >= sourcesRef[k - 1].start

\* Three buffers in a row: the second is scheduled while the first still
\* plays and starts at its end, the third after playback ran dry.
C9_Witness ==
  /\ Len(sourcesRef) = 3
  /\ sourcesRef[2].at < EndOf(1) /\ sourcesRef[2].start = EndOf(1)
  /\ sourcesRef[3].at > EndOf(2) /\ sourcesRef[3].start = sourcesRef[3].at

(***************************************************************************)
(* The interview sessions.  A Session is kept without its transcript and   *)
(* creation time, which no step below reads.                               *)
(***************************************************************************)
MaxSessions == 1

MaxSubmissions == 1

MaxResubmissions == 2

MaxCalls == 2

MaxErrors == 1

MaxTimers == 1

MaxChannels == 1

MaxStreams == 1

\* sessions.find(s => s.id === id) as an index, 0 when there is none
FindSession(list, id) ==
  IF \E i \in 1..Len(list) : list[i].id = id
  THEN CHOOSE i \in 1..Len(list) : list[i].id = id /\ \A j \in 1..(i - 1) : list[j].id # id
  ELSE 0

\* prev.map(s => s.id === id ? { ...s, ...updates } : s)
UpdateSession(list, id, updates) ==
  [i \in 1..Len(list) |-> IF list[i].id = id THEN updates @@ list[i] ELSE list[i]]

\* currentSession of the render in effect: event handlers of the page read it.
RenderedSession ==
  LET i == FindSession(sessionsRef, renderedSessionId)
  IN  IF i = 0 THEN Undef ELSE sessionsRef[i]

\* State is queued that the render in effect has not seen.  React renders
\* within the next tasks of the event loop: only events of a live session,
\* which arrive in bursts, are handled before a pending render.
RenderPending == sessions # sessionsRef \/ currentSessionId # renderedSessionId

\* QUESTIONS.findIndex(q => q.id === questionId) + 1, 0 when there is none
QIndex(questionId) ==
  IF /\ IsStr(questionId) /\ Len(questionId.str) = 1
     /\ \E i \in 1..Len(QUESTIONS) : QUESTIONS[i].id = questionId.str[1]
  THEN CHOOSE i \in 1..Len(QUESTIONS) : QUESTIONS[i].id = questionId.str[1]
  ELSE 0

storedValueLiteral(q, args) == Get(args, "value")

\* The value handleRecordAnswer stores for question q.
storedValue(q, args) ==
  CASE q.type = "array" ->
         IF Truthy(Get(args, "multiValues")) THEN Get(args, "multiValues") ELSE Arr(<<>>)
    [] q.type = "bool" ->
         Bool(Trim(toLowerCase(JsString(Get(args, "value"))))
                \in {<<"true">>, <<"oui">>, <<"ok">>, <<"accord">>, <<"yes">>})
    [] OTHER -> Get(args, "value")

\* newData of handleRecordAnswer.  A property set to undefined reads as an
\* absent one and JSON drops it: it is removed.
newDataOf(q, auditData, args) ==
  LET v == storedValue(q, args)
      d1 == IF IsUndef(v) THEN [k \in DOMAIN auditData \ {q.notionKey} |-> auditData[k]]
            ELSE Put(auditData, q.notionKey, v)
  IN  IF Truthy(Get(args, "autreValue")) /\ q.autreKey # ""
      THEN Put(d1, q.autreKey, Get(args, "autreValue"))
      ELSE d1

(***************************************************************************)
(* submitToWebhook up to its first await: the status is set and the        *)
(* semantic-mapping request is sent.  st is the state a handler has built  *)
(* so far.                                                                 *)
(***************************************************************************)
NewSubmission(raw) ==
  [origin |-> currentSessionIdRef, rawData |-> raw, stage |-> "normalizing",
   mapping |-> "pending", delivery |-> "none", aborted |-> FALSE, payload |-> EmptyObject]

startSubmission(st, raw) ==
  [st EXCEPT !.submissions = Append(@, NewSubmission(raw)),
             !.status = "submitting",
             !.errorMsg = "null"]

(***************************************************************************)
(* The tool-call dispatcher.  A handler takes the state built so far by    *)
(* the message, st, and gives the state it leaves and its result; a        *)
(* setSessions updater is applied when it is queued.                       *)
(***************************************************************************)
\* sessionPromiseRef.current?.then(s => s.sendToolResponse(...)) carries the
\* result of the call, unless the ref holds no promise.
Answered(st, name, result) ==
  [st EXCEPT !.calls = Append(@, [name |-> name, result |-> result,
                                  answered |-> st.promise # "null"])]

\* The handler threw: onmessage ends here, the call and those after it in
\* the message get no sendToolResponse.
Thrown(st, name) ==
  [st EXCEPT !.calls = Append(@, [name |-> name, result |-> "", answered |-> FALSE]),
             !.thrown = TRUE]

handleRecordAnswer(st, args) ==
  IF ~Truthy(currentSessionIdRef) THEN Answered(st, "record_answer", "Erreur session.")
  ELSE IF IsUndef(args) THEN Thrown(st, "record_answer")
  ELSE LET qIndex == QIndex(Get(args, "questionId"))
           cur == FindSession(sessionsRef, currentSessionIdRef)
       IN  IF qIndex = 0
           THEN Answered(st, "record_answer", "ID de question invalide.")
           ELSE IF cur = 0
           THEN Answered(st, "record_answer", "Session introuvable.")
           ELSE LET nextStep == qIndex  \* findIndex counts from 0, QIndex from 1
                    newData == newDataOf(QUESTIONS[qIndex], sessionsRef[cur].auditData, args)
                    st1 == [st EXCEPT !.sessions =
                              UpdateSession(@, currentSessionIdRef,
                                [auditData |-> newData, currentStep |-> nextStep,
                                 consecutiveErrors |-> 0])]
                IN  IF nextStep >= Len(QUESTIONS)
                    THEN Answered([startSubmission(st1, newData) EXCEPT !.pending = TRUE],
                                  "record_answer", "[EVENT: AUDIT_COMPLETED]")
                    ELSE Answered(st1, "record_answer", "[EVENT: RECORD_SUCCESS]")

handleTechnicalClosure(st) ==
  LET i == FindSession(sessionsRef, currentSessionIdRef)
      st1 == IF i # 0 THEN startSubmission(st, sessionsRef[i].auditData) ELSE st
      st2 == IF Truthy(currentSessionIdRef)
             THEN [st1 EXCEPT !.sessions =
                     UpdateSession(@, currentSessionIdRef, [isFinished |-> TRUE])]
             ELSE st1
  IN  Answered([st2 EXCEPT !.pending = TRUE], "technical_closure",
               "[EVENT: TECHNICAL_CLOSURE]")

\* for (const fc of message.toolCall.functionCalls) from the k-th call on
RECURSIVE dispatch(_, _, _)
dispatch(calls, k, st) ==
  IF k > Len(calls) \/ st.thrown THEN st
  ELSE dispatch(calls, k + 1,
                IF calls[k].name = "record_answer" THEN handleRecordAnswer(st, calls[k].args)
                ELSE handleTechnicalClosure(st))

\* The function calls a message may carry.
ArgSamples ==
  { Undef,
    [k \in {"questionId", "value"} |->
       IF k = "questionId" THEN Str(<<"q01">>) ELSE Str(<<"2">>)],
    [k \in {"questionId", "value"} |->
       IF k = "questionId" THEN Str(<<"q21">>) ELSE Str(<<"OUI">>)],
    [k \in {"questionId", "value"} |->
       IF k = "questionId" THEN Str(<<"q99">>) ELSE Str(<<"2">>)] }

CallSamples ==
  {[name |-> "record_answer", args |-> a] : a \in ArgSamples}
    \cup {[name |-> "technical_closure", args |-> Undef]}

Messages == UNION {[1..n -> CallSamples] : n \in 1..MaxCalls}

\* The state a message handler starts from.
HandlerState ==
  [sessions |-> sessions, pending |-> isPendingFinalSpeechRef, submissions |-> submissions,
   status |-> submissionStatus, errorMsg |-> errorMsg, calls |-> <<>>, thrown |-> FALSE,
   promise |-> sessionPromiseRef]

\* The toolCall branch of onmessage; the page submits quota times at most.
OnToolCall(calls, quota) ==
  LET st == dispatch(calls, 1, HandlerState)
  IN  /\ liveChannels > 0
      /\ Len(st.submissions) <= quota
      /\ sessions' = st.sessions
      /\ isPendingFinalSpeechRef' = st.pending
      /\ submissions' = st.submissions
      /\ submissionStatus' = st.status
      /\ errorMsg' = st.errorMsg
      /\ lastText' = NoText /\ UNCHANGED <<varsB, varsStart, varsLoad, varsAudio, clock, currentSessionIdRef, sessionsRef,
                     currentSessionId, renderedSessionId, storedSessionId, isActive,
                     sessionRef, liveChannels, silenceTimerRef, finishTimers, archiveTimer>>

(***************************************************************************)
(* The life cycle of the page: the steps below are the event handlers,     *)
(* the timers and the render of App.                                       *)
(***************************************************************************)
NewSession(id) ==
  [id |-> id, currentStep |-> 0, auditData |-> EmptyObject, transcript |-> <<>>,
   isFinished |-> FALSE, consecutiveErrors |-> 0]

\* currentInputTextRef.current = ""; currentOutputTextRef.current = "";
clearTexts == currentInputTextRef' = <<>> /\ currentOutputTextRef' = <<>>

\* createNewSession(): two calls are at least a millisecond apart; the page
\* creates MaxSessions sessions at most.
createNewSession ==
  /\ clock <= MaxSessions
  /\ sessions' = <<NewSession(DateNowToString(clock))>> \o sessions
  /\ currentSessionId' = DateNowToString(clock)
  /\ currentSessionIdRef' = DateNowToString(clock)
  /\ isPendingFinalSpeechRef' = FALSE
  /\ submissionStatus' = "idle"
  /\ clearTexts
  /\ clock' = clock + 1

\* stopInterview(): close() ends the live session sessionRef holds, and the
\* tracks of the stream mediaStreamRef holds are stopped.
stopInterview ==
  /\ silenceTimerRef' = FALSE
  /\ sessionRef' = "null"
  /\ liveChannels' = IF sessionRef = "live" THEN liveChannels - 1 ELSE liveChannels
  /\ sessionPromiseRef' = "null"
  /\ mediaStreamRef' = FALSE
  /\ captureStreams' = IF mediaStreamRef THEN captureStreams - 1 ELSE captureStreams
  /\ isActive' = FALSE
  /\ stopAllAudio
  /\ clearTexts

\* startEvent of onopen, for the session startInterview took: currentQ is
\* QUESTIONS[sessionToUse.currentStep] || QUESTIONS[0], counted from 0.
startEvent(sessionToUse) ==
  IF sessionToUse.currentStep > 0
  THEN [event |-> "RESUME_AUDIT",
        id |-> IF sessionToUse.currentStep < Len(QUESTIONS)
               THEN QUESTIONS[sessionToUse.currentStep + 1].id
               ELSE QUESTIONS[1].id,
        count |-> 0]
  ELSE [event |-> "START_AUDIT", id |-> "", count |-> 0]

\* The start button, up to ai.live.connect; granted tells whether
\* getUserMedia resolved.  The callbacks of the live session keep the
\* session taken and the isActive of the render that was clicked.
startInterview(granted, channels, streams) ==
  LET fresh == IsUndef(RenderedSession) \/ RenderedSession.isFinished
      sessionToUse == IF fresh THEN NewSession(DateNowToString(clock)) ELSE RenderedSession
  IN  /\ ~RenderPending
      /\ liveChannels + Len(connects) < channels
      /\ granted => captureStreams < streams
      /\ stopAllAudio
      /\ clearTexts
      /\ IF fresh
         THEN createNewSession
         ELSE /\ submissionStatus' = "idle"
              /\ UNCHANGED <<sessions, currentSessionId, currentSessionIdRef,
                             isPendingFinalSpeechRef, clock>>
      /\ IF granted
         THEN /\ isActive' = TRUE
              /\ mediaStreamRef' = TRUE
              /\ captureStreams' = captureStreams + 1
              /\ connects' = Append(connects, [session |-> sessionToUse, isActive |-> isActive])
              /\ sessionPromiseRef' = "pending"
              /\ errorMsg' = "null"
         ELSE /\ isActive' = FALSE
              /\ errorMsg' = "Impossible de démarrer l'entretien."
              /\ UNCHANGED <<mediaStreamRef, captureStreams, connects, sessionPromiseRef>>
      /\ lastText' = NoText
      /\ UNCHANGED <<varsB, varsLoad, closureIsActive, closureSession, sessionsRef, renderedSessionId,
                     storedSessionId, sessionRef, liveChannels, silenceTimerRef,
                     finishTimers, archiveTimer, submissions>>

\* The start button, with the channels and the microphone streams of the page
\* bounded by MaxChannels and MaxStreams.
StartInterview(granted) == startInterview(granted, MaxChannels, MaxStreams)

\* sessionPromise.then(s => sessionRef.current = s) and onopen, for the k-th
\* connect: the start event is sent through the promise sessionPromiseRef
\* holds by then.
ConnectResolves(k) ==
  /\ ~RenderPending
  /\ connects' = SubSeq(connects, 1, k - 1) \o SubSeq(connects, k + 1, Len(connects))
  /\ sessionRef' = "live"
  /\ liveChannels' = liveChannels + 1
  /\ sessionPromiseRef' =
       IF sessionPromiseRef = "pending" /\ k = Len(connects) THEN "resolved"
       ELSE sessionPromiseRef
  /\ closureIsActive' = connects[k].isActive
  /\ closureSession' = connects[k].session.id
  /\ lastText' = IF sessionPromiseRef # "null" THEN startEvent(connects[k].session)
                 ELSE NoText
  /\ UNCHANGED <<varsB, varsAudio, varsSubmit, varsLoad, clock, currentSessionIdRef,
                 sessions, sessionsRef, currentSessionId, renderedSessionId,
                 storedSessionId, isPendingFinalSpeechRef, isActive, silenceTimerRef,
                 finishTimers, archiveTimer, mediaStreamRef, captureStreams,
                 currentInputTextRef, currentOutputTextRef>>

\* The new-session button: stopInterview(); createNewSession();
NewSessionButton ==
  /\ ~RenderPending
  /\ stopInterview
  /\ createNewSession
  /\ lastText' = NoText
  /\ UNCHANGED <<varsB, varsLoad, connects, closureIsActive, closureSession, sessionsRef,
                 renderedSessionId, storedSessionId, finishTimers, archiveTimer,
                 submissions, errorMsg>>

\* A click on the i-th session of the history panel.
HistoryClick(i) ==
  /\ ~RenderPending
  /\ sessionsRef[i].id # currentSessionId
  /\ currentSessionId' = sessionsRef[i].id
  /\ lastText' = NoText /\ UNCHANGED <<varsB, varsStart, varsLoad, varsAudio, varsSubmit, clock, currentSessionIdRef, sessions,
                 sessionsRef, renderedSessionId, storedSessionId, isPendingFinalSpeechRef,
                 isActive, sessionRef, liveChannels, silenceTimerRef, finishTimers,
                 archiveTimer>>

\* JSON.stringify(sessions) as localStorage keeps it
stringify(list) == [text |-> "array", list |-> list]

\* The initialiser of the sessions state, saved ? JSON.parse(saved) : [],
\* up to the first render: JSON.parse throws on a text that is not JSON,
\* and sessions.find of the render throws when the text parsed to null.
initialSessions(saved) ==
  CASE saved.text \in {"absent", "empty"} -> [threw |-> FALSE, list |-> <<>>]
    [] saved.text = "array" -> [threw |-> FALSE, list |-> saved.list]
    [] OTHER -> [threw |-> TRUE, list |-> <<>>]

\* [currentSession?.isFinished, currentSession?.id] of a list and an id
FinishedDeps(list, id) ==
  LET i == FindSession(list, id)
  IN  IF i = 0 THEN <<Undef, Undef>> ELSE <<Bool(list[i].isFinished), list[i].id>>

\* A render commits the queued state and runs the effects whose
\* dependencies changed.
Render ==
  LET deps == FinishedDeps(sessions, currentSessionId)
  IN  /\ sessions # sessionsRef \/ currentSessionId # renderedSessionId
      /\ sessionsRef' = sessions
      /\ renderedSessionId' = currentSessionId
      /\ currentSessionIdRef' =
           IF currentSessionId # renderedSessionId THEN currentSessionId
           ELSE currentSessionIdRef
      /\ storedSessionId' =
           IF Truthy(currentSessionId) THEN currentSessionId ELSE storedSessionId
      /\ savedSessions' = stringify(sessions)
      /\ IF deps = FinishedDeps(sessionsRef, renderedSessionId)
         THEN UNCHANGED <<archiveTimer, silenceTimerRef, sessionRef, liveChannels, isActive,
                          sessionPromiseRef, mediaStreamRef, captureStreams, varsAudio,
                          currentInputTextRef, currentOutputTextRef>>
         ELSE IF deps[1] = Bool(TRUE)
         THEN archiveTimer' = TRUE /\ stopInterview
         ELSE /\ archiveTimer' = FALSE
              /\ UNCHANGED <<silenceTimerRef, sessionRef, liveChannels, isActive,
                             sessionPromiseRef, mediaStreamRef, captureStreams, varsAudio,
                          currentInputTextRef, currentOutputTextRef>>
      /\ lastText' = NoText
      /\ UNCHANGED <<varsB, varsSubmit, clock, sessions, currentSessionId,
                     isPendingFinalSpeechRef, finishTimers, connects, closureIsActive, closureSession,
                     mounted, request, response>>

\* A 20 s timer that takes the session out of the list as well.
ArchiveTimerDrops ==
  /\ ~RenderPending
  /\ archiveTimer
  /\ archiveTimer' = FALSE
  /\ currentSessionId' = Undef
  /\ sessions' = SelectSeq(sessions, LAMBDA s : s.id # currentSessionId)
  /\ lastText' = NoText /\ UNCHANGED <<varsB, varsStart, varsLoad, varsAudio, varsSubmit, clock, currentSessionIdRef,
                 sessionsRef, renderedSessionId, storedSessionId, isPendingFinalSpeechRef,
                 isActive, sessionRef, liveChannels, silenceTimerRef, finishTimers>>

\* The 20 s timer of the finished effect.
ArchiveTimerFire ==
  /\ ~RenderPending
  /\ archiveTimer
  /\ archiveTimer' = FALSE
  /\ currentSessionId' = Undef
  /\ lastText' = NoText /\ UNCHANGED <<varsB, varsStart, varsLoad, varsAudio, varsSubmit, clock, currentSessionIdRef, sessions,
                 sessionsRef, renderedSessionId, storedSessionId, isPendingFinalSpeechRef,
                 isActive, sessionRef, liveChannels, silenceTimerRef, finishTimers>>

(***************************************************************************)
(* The events of a live session and the timers they arm.                   *)
(***************************************************************************)
TurnKinds == {"silent", "apology", "answer"}

\* newErrCount of the turnComplete branch: the agent apologised, or the
\* user said more than two characters, or neither.
newErrCount(kind, count) ==
  CASE kind = "apology" -> count + 1
    [] kind = "answer" -> 0
    [] OTHER -> count

\* A turn of the live session taken as one step, its transcriptions and its
\* turnComplete: kind tells what the two text buffers held, and the
\* transcript is left out.  TurnComplete below reads the buffers themselves.
OnTurnComplete(kind) ==
  LET i == FindSession(sessions, currentSessionIdRef)
  IN  /\ liveChannels > 0
      /\ kind = "apology" /\ i # 0 => sessions[i].consecutiveErrors < MaxErrors
      /\ sessions' =
           IF i = 0 THEN sessions
           ELSE UpdateSession(sessions, currentSessionIdRef,
                  [consecutiveErrors |-> newErrCount(kind, sessions[i].consecutiveErrors)])
      /\ silenceTimerRef' = TRUE
      /\ IF isPendingFinalSpeechRef
         THEN /\ finishTimers < MaxTimers
              /\ isPendingFinalSpeechRef' = FALSE
              /\ finishTimers' = finishTimers + 1
         ELSE UNCHANGED <<isPendingFinalSpeechRef, finishTimers>>
      /\ lastText' = NoText /\ UNCHANGED <<varsB, varsStart, varsLoad, varsAudio, varsSubmit, clock, currentSessionIdRef, sessionsRef,
                     currentSessionId, renderedSessionId, storedSessionId, isActive,
                     sessionRef, liveChannels, archiveTimer>>

\* The inputTranscription branch of onmessage, its text left out.
OnInputTranscription ==
  /\ liveChannels > 0
  /\ silenceTimerRef' = FALSE
  /\ lastText' = NoText /\ UNCHANGED <<varsB, varsStart, varsLoad, varsAudio, varsSubmit, clock, currentSessionIdRef, sessions,
                 sessionsRef, currentSessionId, renderedSessionId, storedSessionId,
                 isPendingFinalSpeechRef, isActive, sessionRef, liveChannels, finishTimers,
                 archiveTimer>>

\* The 10 s timer of startSilenceTimer: it sends a text to the live session
\* sessionRef holds if the isActive of its closure is set.
SilenceTimerFire ==
  LET i == FindSession(sessionsRef, currentSessionIdRef)
      errCount == (IF i = 0 THEN 0 ELSE sessionsRef[i].consecutiveErrors) + 1
  IN  /\ ~RenderPending
      /\ silenceTimerRef
      /\ silenceTimerRef' = FALSE
      /\ lastText' = IF sessionRef = "live" /\ closureIsActive
                     THEN [event |-> "SILENCE_10S", id |-> "", count |-> errCount]
                     ELSE NoText
      /\ UNCHANGED <<varsB, varsAudio, varsSubmit, varsLoad, clock, currentSessionIdRef,
                     sessions, sessionsRef, currentSessionId, renderedSessionId,
                     storedSessionId, isPendingFinalSpeechRef, isActive, sessionRef,
                     liveChannels, finishTimers, archiveTimer, sessionPromiseRef, connects,
                     mediaStreamRef, captureStreams, closureIsActive, closureSession,
                     currentInputTextRef, currentOutputTextRef>>

\* The timer of the final turn: updateCurrentSession({ isFinished: true })
FinishTimerFire ==
  /\ ~RenderPending
  /\ finishTimers > 0
  /\ finishTimers' = finishTimers - 1
  /\ sessions' = IF Truthy(currentSessionIdRef)
                 THEN UpdateSession(sessions, currentSessionIdRef, [isFinished |-> TRUE])
                 ELSE sessions
  /\ lastText' = NoText /\ UNCHANGED <<varsB, varsStart, varsLoad, varsAudio, varsSubmit, clock, currentSessionIdRef, sessionsRef,
                 currentSessionId, renderedSessionId, storedSessionId,
                 isPendingFinalSpeechRef, isActive, sessionRef, liveChannels,
                 silenceTimerRef, archiveTimer>>

\* onerror of a live session
OnError ==
  /\ liveChannels > 0
  /\ errorMsg' = "Service temporairement indisponible."
  /\ stopInterview
  /\ UNCHANGED <<varsB, varsLoad, clock, currentSessionIdRef, sessions, sessionsRef,
                 currentSessionId, renderedSessionId, storedSessionId,
                 isPendingFinalSpeechRef, finishTimers, archiveTimer, submissions,
                 submissionStatus, connects, closureIsActive, closureSession>>
  /\ lastText' = NoText

\* onclose: the far end closed the live session; held tells whether it is
\* the one sessionRef holds.
OnClose(held) ==
  /\ IF held THEN sessionRef = "live"
     ELSE liveChannels > (IF sessionRef = "live" THEN 1 ELSE 0)
  /\ liveChannels' = liveChannels - 1
  /\ sessionRef' = IF held THEN "closed" ELSE sessionRef
  /\ isActive' = FALSE
  /\ lastText' = NoText /\ UNCHANGED <<varsB, varsStart, varsLoad, varsAudio, varsSubmit, clock, currentSessionIdRef, sessions,
                 sessionsRef, currentSessionId, renderedSessionId, storedSessionId,
                 isPendingFinalSpeechRef, silenceTimerRef, finishTimers, archiveTimer>>

\* App is constructed: the state comes from localStorage, every ref starts
\* empty, and the effects of the first render run.
initialise ==
  LET loaded == initialSessions(savedSessions)
      deps == FinishedDeps(loaded.list, storedSessionId)
  IN  /\ mounted' = IF loaded.threw THEN "failed" ELSE "mounted"
      /\ sessions' = loaded.list
      /\ sessionsRef' = loaded.list
      /\ savedSessions' = IF loaded.threw THEN savedSessions ELSE stringify(loaded.list)
      /\ currentSessionId' = storedSessionId
      /\ renderedSessionId' = storedSessionId
      /\ currentSessionIdRef' = storedSessionId
      /\ isPendingFinalSpeechRef' = FALSE
      /\ isActive' = FALSE
      /\ sessionRef' = "null"
      /\ liveChannels' = 0
      /\ silenceTimerRef' = FALSE
      /\ finishTimers' = 0
      /\ archiveTimer' = (~loaded.threw /\ deps[1] = Bool(TRUE))
      /\ sessionPromiseRef' = "null"
      /\ connects' = <<>>
      /\ mediaStreamRef' = FALSE
      /\ captureStreams' = 0
      /\ clearTexts
      /\ closureIsActive' = FALSE
      /\ closureSession' = Undef
      /\ lastText' = NoText
      /\ submissionStatus' = "idle"
      /\ errorMsg' = "null"
      /\ stopAllAudio
      /\ UNCHANGED <<varsB, clock, storedSessionId, request, response>>

\* The first load of the page.
Mount ==
  /\ mounted = "loading"
  /\ initialise
  /\ UNCHANGED submissions

\* The page is loaded again: the timers, the live sessions, the microphone
\* streams and the requests in flight are gone.
Reload ==
  /\ ~RenderPending
  /\ mounted = "mounted"
  /\ initialise
  /\ submissions' = [i \in 1..Len(submissions) |->
                       IF submissions[i].stage \in {"success", "error"} THEN submissions[i]
                       ELSE [submissions[i] EXCEPT !.stage = "unloaded"]]

(***************************************************************************)
(* The submission pipeline after the first await of submitToWebhook:       *)
(* normalizeAuditData (the semantic mapping, then Stage B), then the       *)
(* delivery call.  A payload is built with the current session and the     *)
(* time of that moment.                                                    *)
(***************************************************************************)
SUBMIT_TIMEOUT_MS == 300000

clientTimeoutMs == 95000

\* How "await fetch('/api/normalize')" ends: the response headers arrive,
\* with a 2xx status or not, the request fails, or the 95 s timer aborts it.
NormalizeOutcomes == {"ok", "non2xx", "throw", "timeout"}

\* How "await res.json()" ends: a candidate object, candidate null, a body
\* that is not JSON, or a body still incomplete when the 300 s timer aborts.
BodyOutcomes == {"candidate", "null", "unparsable", "stalled"}

\* How "await fetch(endpoint)" ends, "deadline" being the 300 s timer; a
\* fetch called with an aborted signal rejects at once.
DeliveryOutcomes == {"2xx", "non2xx", "throw", "deadline"}

\* The candidate of the semantic mapping in the runs below.
SampleCandidate == Single(QUESTIONS[1].notionKey, Str(QUESTIONS[1].options[3]))

settleNormalizeRethrow(sub, out, sid, nowISO) ==
  IF out = "ok" THEN [sub EXCEPT !.stage = "reading"]
  ELSE [sub EXCEPT !.stage = "error", !.mapping = out]

\* The submission after the mapping request settled.
settleNormalize(sub, out, sid, nowISO) ==
  IF out = "ok" THEN [sub EXCEPT !.stage = "reading"]
  ELSE [sub EXCEPT !.stage = "delivering", !.mapping = out, !.delivery = "pending",
                   !.payload = buildGuaranteedPayload(sub.rawData, Undef, sid, nowISO)]

\* readBody with a mapping request whose signal is not chained to the signal
\* of submitToWebhook.
readBodyOwnSignal(sub, out, sid, nowISO) ==
  LET cand == IF out = "candidate" THEN SampleCandidate ELSE Undef
  IN  [sub EXCEPT !.stage = "delivering", !.mapping = out, !.delivery = "pending",
                  !.payload = buildGuaranteedPayload(sub.rawData, cand, sid, nowISO)]

\* The submission after the body of the mapping response was read: a
\* rejection of res.json() is caught, the payload is built and fetch(endpoint)
\* is called, with the signal of submitToWebhook aborted after a stalled body.
readBody(sub, out, sid, nowISO) ==
  LET cand == IF out = "candidate" THEN SampleCandidate ELSE Undef
  IN  [sub EXCEPT !.stage = "delivering", !.mapping = out, !.delivery = "pending",
                  !.aborted = (out = "stalled"),
                  !.payload = buildGuaranteedPayload(sub.rawData, cand, sid, nowISO)]

settleDeliveryNoSignal(sub, out) ==
  IF out = "deadline" THEN sub
  ELSE [sub EXCEPT !.stage = IF out = "2xx" THEN "success" ELSE "error", !.delivery = out]

\* The submission after fetch(endpoint) settled.
settleDelivery(sub, out) ==
  [sub EXCEPT !.stage = IF out = "2xx" THEN "success" ELSE "error", !.delivery = out]

\* The error the catch block of submitToWebhook receives when fetch(endpoint)
\* ends with out, its message as a sequence of words: the Error thrown on
\* !response.ok, the TypeError of a failed request, the AbortError of a
\* request whose signal was aborted.  normalizeAuditData catches its own.
deliveryError(out) ==
  CASE out = "non2xx" -> [name |-> "Error", message |-> <<"HTTP", "Error:", "500">>]
    [] out = "throw" -> [name |-> "TypeError", message |-> <<"Failed", "to", "fetch">>]
    [] out = "deadline" ->
         [name |-> "AbortError", message |-> <<"The", "operation", "was", "aborted.">>]

isTimeoutByMessage(error) ==
  \/ Includes(error.message, "AI_ABORTED")
  \/ Includes(error.message, "AI_NORMALIZE_TIMEOUT")

\* isTimeout of the catch block
isTimeout(error) ==
  \/ error.name = "AbortError"
  \/ Includes(error.message, "AI_ABORTED")
  \/ Includes(error.message, "AI_NORMALIZE_TIMEOUT")

\* The message of the catch block of submitToWebhook.
failureMessage(timedOut) ==
  IF timedOut THEN "Le délai de transmission a été dépassé (300s)."
  ELSE "La transmission des données a échoué. Veuillez contacter le support."

UnchangedButSubmit ==
  lastText' = NoText /\ UNCHANGED <<varsB, varsStart, varsLoad, varsAudio, varsSession, clock, currentSessionIdRef>>

NormalizeSettles(i, out) ==
  /\ ~RenderPending
  /\ submissions[i].stage = "normalizing"
  /\ submissions' = [submissions EXCEPT ![i] =
                       settleNormalize(@, out, currentSessionIdRef, toISOString(clock))]
  /\ UNCHANGED <<submissionStatus, errorMsg>>
  /\ UnchangedButSubmit

BodyRead(i, out) ==
  /\ ~RenderPending
  /\ submissions[i].stage = "reading"
  /\ submissions' = [submissions EXCEPT ![i] =
                       readBody(@, out, currentSessionIdRef, toISOString(clock))]
  /\ UNCHANGED <<submissionStatus, errorMsg>>
  /\ UnchangedButSubmit

DeliverySettles(i, out) ==
  /\ ~RenderPending
  /\ submissions[i].stage = "delivering"
  /\ submissions[i].aborted => out = "deadline"
  /\ submissions' = [submissions EXCEPT ![i] = settleDelivery(@, out)]
  /\ IF out = "2xx"
     THEN submissionStatus' = "success" /\ UNCHANGED errorMsg
     ELSE /\ submissionStatus' = "error"
          /\ errorMsg' = failureMessage(isTimeout(deliveryError(out)))
  /\ UnchangedButSubmit

(***************************************************************************)
(* The page from its first load with an empty localStorage.  Of the        *)
(* outcomes of the two calls of a submission one of each kind is drawn     *)
(* here; SpecSubmit below draws them all.                                  *)
(***************************************************************************)
Init ==
  /\ IdleStageB /\ IdleAudio /\ IdleSession /\ IdleSubmit /\ IdleStart /\ IdleLoad
  /\ clock = 1
  /\ currentSessionIdRef = Undef

Next ==
  \/ \E granted \in BOOLEAN : StartInterview(granted)
  \/ \E k \in 1..Len(connects) : ConnectResolves(k)
  \/ NewSessionButton
  \/ \E i \in 1..Len(sessionsRef) : HistoryClick(i)
  \/ Render
  \/ ArchiveTimerFire
  \/ \E calls \in Messages : OnToolCall(calls, MaxSubmissions)
  \/ \E kind \in TurnKinds : OnTurnComplete(kind)
  \/ OnInputTranscription
  \/ SilenceTimerFire
  \/ FinishTimerFire
  \/ OnError
  \/ \E held \in BOOLEAN : OnClose(held)
  \/ Reload
  \/ \E i \in 1..Len(submissions), out \in {"ok", "throw"} : NormalizeSettles(i, out)
  \/ \E i \in 1..Len(submissions), out \in {"candidate"} : BodyRead(i, out)
  \/ \E i \in 1..Len(submissions), out \in {"2xx", "non2xx"} : DeliverySettles(i, out)

Spec == Init /\ [][Next]_vars

(***************************************************************************)
(* The submission pipeline on its own: an interview is started, its        *)
(* answers arrive, and every submission runs to its end under every        *)
(* outcome of the two calls, while the page is left alone.                 *)
(***************************************************************************)
NextSubmit ==
  \/ StartInterview(TRUE)
  \/ \E k \in 1..Len(connects) : ConnectResolves(k)
  \/ Render
  \/ \E call \in CallSamples : OnToolCall(<<call>>, MaxResubmissions)
  \/ \E i \in 1..Len(submissions), out \in NormalizeOutcomes : NormalizeSettles(i, out)
  \/ \E i \in 1..Len(submissions), out \in BodyOutcomes : BodyRead(i, out)
  \/ \E i \in 1..Len(submissions), out \in DeliveryOutcomes : DeliverySettles(i, out)

SpecSubmit == Init /\ [][NextSubmit]_vars

(***************************************************************************)
(* The page under fair scheduling: a pending render and a pending timer    *)
(* run, and a live session goes on to complete its turns.  Nothing is      *)
(* assumed of the user, of the far end closing or failing, nor of the      *)
(* requests of a submission, which touch no session.                       *)
(***************************************************************************)
Fairness ==
  /\ WF_vars(Render)
  /\ WF_vars(FinishTimerFire)
  /\ WF_vars(ArchiveTimerFire)
  /\ WF_vars(SilenceTimerFire)
  /\ WF_vars(\E kind \in TurnKinds : OnTurnComplete(kind))

SpecFair == Init /\ [][Next]_vars /\ Fairness

(***************************************************************************)
(* Properties of the interview session.                                    *)
(***************************************************************************)
\* The ids createNewSession can give.
AllSessionIds == {DateNowToString(t) : t \in 1..MaxSessions}

PointerOf(list, id) == list[FindSession(list, id)].currentStep

\* C2: over any record_answer calls on a session, whatever the question ids
\* and their order, the question pointer of the session never decreases.
C2_PointerNeverDecreases ==
  [][\A id \in AllSessionIds :
       FindSession(sessions, id) # 0 /\ FindSession(sessions', id) # 0
         => PointerOf(sessions', id) >= PointerOf(sessions, id)]_vars

\* The session has its pointer at the length of the schema.
AtEnd(id) ==
  /\ FindSession(sessions, id) # 0
  /\ PointerOf(sessions, id) = Len(QUESTIONS)

Finished(id) ==
  /\ FindSession(sessions, id) # 0
  /\ sessions[FindSession(sessions, id)].isFinished

\* C5: once a record_answer has brought the pointer of a session to the
\* length of the schema, the session eventually becomes finished, whatever
\* events of the live session, teardown or reload follow.
C5_EventuallyFinished == \A id \in AllSessionIds : AtEnd(id) ~> Finished(id)

\* The result of a record_answer call that recorded the answer.
RecordedResults == {"[EVENT: RECORD_SUCCESS]", "[EVENT: AUDIT_COMPLETED]"}

\* The reasons the claim gives for a failure of record_answer(args).
MayFail(args) ==
  \/ ~Truthy(currentSessionIdRef)
  \/ FindSession(sessionsRef, currentSessionIdRef) = 0
  \/ IsUndef(args)
  \/ QIndex(Get(args, "questionId")) = 0

\* C10: a record_answer call received on a live session fails only for an
\* unrecognized question id, malformed arguments or the lack of an active
\* session, and a failing call is answered with a short text and leaves the
\* sessions as they are and starts no submission.
C10_FailureReported ==
  liveChannels > 0 =>
    \A args \in ArgSamples :
      LET st == handleRecordAnswer(HandlerState, args)
      IN  st.calls[1].result \notin RecordedResults =>
            /\ MayFail(args)
            /\ st.calls[1].answered
            /\ st.sessions = sessions
            /\ st.submissions = submissions

(***************************************************************************)
(* Properties of the submission pipeline.                                  *)
(***************************************************************************)
\* fetch(endpoint) was called for the submission.
DeliveryCalled(sub) == sub.delivery # "none"

\* C3: the delivery call carrying the payload of a session is made at most
\* once: no later record_answer or technical_closure makes a second one for
\* the same session.
C3_AtMostOneDelivery ==
  \A i, j \in 1..Len(submissions) :
    /\ i < j
    /\ DeliveryCalled(submissions[i])
    /\ DeliveryCalled(submissions[j])
    => Get(submissions[i].payload, "session_id") # Get(submissions[j].payload, "session_id")

\* The ways the semantic-mapping call fails: the request fails, the 95 s
\* timer aborts it, the status is not 2xx, the body is not JSON, the body is
\* still incomplete at the overall deadline.
MappingFailures == {"throw", "timeout", "non2xx", "unparsable", "stalled"}

\* The payload Stage B builds from the raw answers alone for the session and
\* at the instant stamped on payload.
FromRawAnswers(sub) ==
  buildGuaranteedPayload(sub.rawData, Undef, Get(sub.payload, "session_id"),
                         Get(sub.payload, "Date soumission"))

\* C4: when the semantic-mapping call fails, the delivery call is still made,
\* with the payload built from the raw answers, and the submission ends in
\* success or in error as the delivery call alone ends.
C4_MappingFailureStillDelivers ==
  \A i \in 1..Len(submissions) :
    submissions[i].mapping \in MappingFailures =>
      /\ DeliveryCalled(submissions[i])
      /\ submissions[i].payload = FromRawAnswers(submissions[i])
      /\ submissions[i].stage = "success" <=> submissions[i].delivery = "2xx"
      /\ submissions[i].stage = "error" <=>
           submissions[i].delivery \in {"non2xx", "throw", "deadline"}
      /\ submissions[i].stage \in {"delivering", "success", "error"}

\* One submission whose mapping request timed out was delivered, another
\* whose mapping response was not JSON was refused by the endpoint.
C4_Witness ==
  \E i, j \in 1..Len(submissions) :
    /\ submissions[i].mapping = "timeout" /\ submissions[i].stage = "success"
    /\ Truthy(Get(submissions[i].payload, "source"))
    /\ submissions[j].mapping = "unparsable" /\ submissions[j].stage = "error"
    /\ submissions[j].delivery = "non2xx"

(***************************************************************************)
(* Properties of the tool-call dispatcher.                                 *)
(***************************************************************************)
\* The session the tool calls act on, as an index of the sessions state.
CurrentIndex == FindSession(sessions, currentSessionIdRef)

\* C11: a technical_closure call on a session the page has rendered,
\* whatever was called before it, marks that session finished and starts
\* one submission whose raw answers are exactly those committed so far.
C11_ClosureSubmitsCommittedAnswers ==
  (liveChannels > 0 /\ CurrentIndex # 0 /\ FindSession(sessionsRef, currentSessionIdRef) # 0) =>
    LET st == handleTechnicalClosure(HandlerState)
    IN  /\ st.sessions[CurrentIndex].isFinished
        /\ Len(st.submissions) = Len(submissions) + 1
        /\ st.submissions[Len(st.submissions)].rawData = sessions[CurrentIndex].auditData

\* C12: every tool call of an inbound message, failing or not, is answered
\* by one sendToolResponse carrying its result, in the same step, whether or
\* not a submission it started has settled.
C12_EveryCallAnswered ==
  liveChannels > 0 =>
    \A calls \in Messages :
      LET st == dispatch(calls, 1, HandlerState)
      IN  /\ Len(st.calls) = Len(calls)
          /\ \A k \in 1..Len(st.calls) :
               st.calls[k].answered /\ st.calls[k].name = calls[k].name

(***************************************************************************)
(* Properties of the start of an interview.                                *)
(***************************************************************************)
\* The event that tells the model to resume a session at its pointer: the
\* start event when nothing is recorded yet, else the resume event with the
\* id of the question at the pointer, counted from 0.
ResumeEventAt(pointer) ==
  IF pointer = 0 THEN {[event |-> "START_AUDIT", id |-> "", count |-> 0]}
  ELSE {[event |-> "RESUME_AUDIT", id |-> QUESTIONS[i].id, count |-> 0] :
          i \in {pointer + 1} \cap (1..Len(QUESTIONS))}

\* C13: a start on an absent or finished session creates a session with
\* pointer 0 and makes it current; a start on an unfinished session creates
\* none, and the event sent once the live session is connected resumes it at
\* the question of its pointer.
C13_StartCreatesOrResumes ==
  [][ /\ \A granted \in BOOLEAN :
           StartInterview(granted) =>
             IF IsUndef(RenderedSession) \/ RenderedSession.isFinished
             THEN /\ Len(sessions') = Len(sessions) + 1
                  /\ sessions'[1].currentStep = 0 /\ ~sessions'[1].isFinished
                  /\ currentSessionId' = sessions'[1].id
             ELSE sessions' = sessions /\ currentSessionId' = currentSessionId
      /\ \A k \in 1..Len(connects) :
           (ConnectResolves(k) /\ lastText' # NoText
              /\ FindSession(sessions, connects[k].session.id) # 0) =>
             lastText' \in ResumeEventAt(PointerOf(sessions, connects[k].session.id))
    ]_vars

\* C14: a start that fails on getUserMedia or on the audio context shows
\* the "cannot start" error and leaves the session list and the current
\* session as they were.
C14_FailedStartCreatesNothing ==
  [][ StartInterview(FALSE) =>
        /\ errorMsg' = "Impossible de démarrer l'entretien."
        /\ sessions' = sessions
        /\ currentSessionId' = currentSessionId
        /\ currentSessionIdRef' = currentSessionIdRef
    ]_vars

(***************************************************************************)
(* Properties of the silence timer and of the teardown.                    *)
(***************************************************************************)
\* C16: when the 10 s silence timer armed by a turn-complete expires while
\* the session is active on a live session, the silence event is sent with
\* the error count of the current session plus one.
C16_SilenceEventInjected ==
  [][ (SilenceTimerFire /\ isActive /\ sessionRef = "live") =>
        /\ lastText'.event = "SILENCE_10S"
        /\ lastText'.count =
             (IF FindSession(sessionsRef, currentSessionIdRef) = 0 THEN 0
              ELSE sessionsRef[FindSession(sessionsRef, currentSessionIdRef)].consecutiveErrors)
               + 1
    ]_vars

\* stopInterview ran after the last start and every connect has settled.
Settled == sessionPromiseRef = "null" /\ connects = <<>>

\* C17: once a teardown and the pending callbacks have settled, no silence
\* timer is armed, no live session is open, no capture track runs and no
\* playback buffer is scheduled.
C17_TeardownReleasesAll ==
  Settled =>
    /\ ~silenceTimerRef
    /\ liveChannels = 0
    /\ captureStreams = 0
    /\ sourcesRef = <<>>

(***************************************************************************)
(* The first load of the page over what an earlier visit, or anything      *)
(* else, left in localStorage, and the page after it.  A page whose first  *)
(* render threw is unmounted by React: none of its handlers runs.          *)
(***************************************************************************)
\* A session an earlier visit saved, at pointer step.
SavedSession(step, finished) ==
  [NewSession(DateNowToString(0)) EXCEPT !.currentStep = step, !.isFinished = finished]

\* What the sessions key may hold at startup.
StorageSamples ==
  {AbsentItem}
    \cup {[text |-> t, list |-> <<>>] : t \in {"empty", "truncated", "null"}}
    \cup {stringify(<<>>)}
    \cup {stringify(<<SavedSession(step, finished)>>) :
            step \in {0, 1, Len(QUESTIONS) - 1, Len(QUESTIONS)}, finished \in BOOLEAN}

InitLoad ==
  /\ IdleStageB /\ IdleAudio /\ IdleSubmit /\ IdleStart
  /\ clock = 1
  /\ savedSessions \in StorageSamples
  /\ IdleServer
  /\ storedSessionId \in {Undef, DateNowToString(0)}
  /\ mounted = "loading"
  /\ sessions = <<>> /\ sessionsRef = <<>>
  /\ currentSessionId = Undef /\ renderedSessionId = Undef /\ currentSessionIdRef = Undef
  /\ isPendingFinalSpeechRef = FALSE /\ isActive = FALSE
  /\ sessionRef = "null" /\ liveChannels = 0
  /\ silenceTimerRef = FALSE /\ finishTimers = 0 /\ archiveTimer = FALSE

NextLoad ==
  \/ Mount
  \/ mounted = "mounted" /\ NewSessionButton
  \/ mounted = "mounted" /\ \E i \in 1..Len(sessionsRef) : HistoryClick(i)
  \/ mounted = "mounted" /\ Render
  \/ mounted = "mounted" /\ ArchiveTimerFire
  \/ mounted = "mounted" /\ Reload

SpecLoad == InitLoad /\ [][NextLoad]_vars

\* The text of the sessions key is not JSON.
Unparsable(saved) == saved.text = "truncated"

\* C15: the first load of a page whose sessions key is absent or holds a
\* text that is not JSON ends with the page mounted on an empty session
\* list.
C15_CorruptStorageStartsEmpty ==
  [][ (Mount /\ (savedSessions = AbsentItem \/ Unparsable(savedSessions))) =>
        mounted' = "mounted" /\ sessions' = <<>>
    ]_vars

(***************************************************************************)
(* Properties of the end of a submission.                                  *)
(***************************************************************************)
DeadlineMessage == failureMessage(TRUE)

GenericMessage == failureMessage(FALSE)

\* C18: a submission in flight shows submitting until the delivery call
\* settles; it then shows success exactly when that call returned 2xx, error
\* with the deadline message exactly when the 300 s deadline aborted the
\* call, and error with the generic message on a non-2xx response or a
\* failed request.  No other status is ever shown.
C18_SubmissionStates ==
  [][ /\ submissionStatus' \in {"idle", "submitting", "success", "error"}
      /\ \A i \in 1..Len(submissions) :
           /\ \A out \in NormalizeOutcomes :
                NormalizeSettles(i, out) => UNCHANGED <<submissionStatus, errorMsg>>
           /\ \A out \in BodyOutcomes :
                BodyRead(i, out) => UNCHANGED <<submissionStatus, errorMsg>>
           /\ \A out \in DeliveryOutcomes :
                DeliverySettles(i, out) =>
                  /\ submissions'[i].stage \in {"success", "error"}
                  /\ submissionStatus' = submissions'[i].stage
                  /\ submissionStatus' = "success" <=> out = "2xx"
                  /\ (submissionStatus' = "error" /\ errorMsg' = DeadlineMessage)
                       <=> out = "deadline"
                  /\ (submissionStatus' = "error" /\ errorMsg' = GenericMessage)
                       <=> out \in {"non2xx", "throw"}
    ]_vars

\* One submission was delivered, and a later one was aborted by the deadline
\* after its mapping response stalled: the page shows the deadline message.
C18_Witness ==
  \E i, j \in 1..Len(submissions) :
    /\ submissions[i].stage = "success" /\ submissions[i].delivery = "2xx"
    /\ submissions[j].stage = "error" /\ submissions[j].delivery = "deadline"
    /\ submissions[j].aborted
    /\ submissionStatus = "error" /\ errorMsg = DeadlineMessage

(***************************************************************************)
(* The submissions under fair scheduling: a pending render runs, and the   *)
(* timers of a submission fire, the 95 s timer of the mapping request and  *)
(* the 300 s timer of submitToWebhook, which rejects whichever of          *)
(* res.json() and fetch(endpoint) is pending.  Nothing is assumed of the   *)
(* two servers: no response need ever arrive.                              *)
(***************************************************************************)
\* The timer of the submission's await in stage can fire.
TimerPending(i, stage) ==
  i <= Len(submissions) /\ ~RenderPending /\ submissions[i].stage = stage

\* The step NormalizeSettles(i, "timeout")
MappingTimedOut(i) ==
  /\ TimerPending(i, "normalizing")
  /\ submissions'[i].stage = "delivering" /\ submissions'[i].mapping = "timeout"

\* The step BodyRead(i, "stalled")
BodyAborted(i) ==
  /\ TimerPending(i, "reading")
  /\ submissions'[i].stage = "delivering" /\ submissions'[i].mapping = "stalled"

\* Strong fairness of the three timer steps.  TimerPending is what ENABLED
\* of the first two amounts to; their fairness is written out with it, since
\* deciding ENABLED on the actions themselves means building a payload.
TimersFire ==
  /\ WF_vars(Render)
  /\ \A i \in 1..MaxResubmissions :
       /\ <>[]~TimerPending(i, "normalizing") \/ []<><<MappingTimedOut(i)>>_vars
       /\ <>[]~TimerPending(i, "reading") \/ []<><<BodyAborted(i)>>_vars
       /\ SF_vars(i <= Len(submissions) /\ DeliverySettles(i, "deadline"))

SpecSubmitFair == Init /\ [][NextSubmit]_vars /\ TimersFire

\* C19: every submission that was started ends in success or in error, with
\* no more than the timers firing.
C19_SubmissionEnds ==
  \A i \in 1..MaxResubmissions :
    (i <= Len(submissions) /\ submissions[i].stage = "normalizing")
      ~> (i <= Len(submissions) /\ submissions[i].stage \in {"success", "error"})

\* A submission whose two calls never responded: the mapping request was
\* aborted by its timer and the delivery call by the overall deadline.
C19_Witness ==
  \E i \in 1..Len(submissions) :
    /\ submissions[i].mapping = "timeout"
    /\ submissions[i].delivery = "deadline"
    /\ submissions[i].stage = "error"
    /\ submissionStatus = "error"

(***************************************************************************)
(* Stage B on multi-select answers written as option numbers: "2,4",       *)
(* "1; 3; 3", as the raw answer or as the candidate's value.               *)
(***************************************************************************)
MaxTokens == 4

MaxIndex == 4

\* String(n)
IndexLexeme(n) == CHOOSE l \in DOMAIN DigitTable : DigitTable[l] = n

\* The lists of option numbers of an answer.
IndexLists == UNION {[1..k -> 1..MaxIndex] : k \in 1..MaxTokens}

\* The text between two numbers.
TokenDelimiters == {<<",">>, <<";", " ">>}

\* The numbers of idx written one after the other, d in between.
RECURSIVE TokenText(_, _)
TokenText(idx, d) ==
  IF Len(idx) = 1 THEN <<IndexLexeme(idx[1])>>
  ELSE <<IndexLexeme(Head(idx))>> \o d \o TokenText(Tail(idx), d)

MultiSelectQuestions == {j \in 1..Len(QUESTIONS) : QUESTIONS[j].type = "array"}

\* The answer idx to question q, given as the raw answer or by the candidate.
TokenInput(q, idx, d, byCandidate) ==
  IF byCandidate
  THEN [rawData |-> EmptyObject, candidate |-> Single(q.notionKey, Str(TokenText(idx, d)))]
  ELSE [rawData |-> Single(q.notionKey, Str(TokenText(idx, d))), candidate |-> Undef]

TokenInputs ==
  {TokenInput(QUESTIONS[j], idx, d, byCandidate) :
     j \in MultiSelectQuestions, idx \in IndexLists, d \in TokenDelimiters,
     byCandidate \in BOOLEAN}

InitTokens ==
  /\ \E inp \in TokenInputs : rawData = inp.rawData /\ candidate = inp.candidate
  /\ runs = <<>>
  /\ clock = 1
  /\ currentSessionIdRef = Undef
  /\ IdleAudio /\ IdleSession /\ IdleSubmit /\ IdleStart /\ IdleLoad

NextTokens == RunStageB

SpecTokens == InitTokens /\ [][NextTokens]_vars

\* The labels at the positions idx, each kept at its first occurrence.
RECURSIVE LabelsAt(_, _, _)
LabelsAt(opts, idx, seen) ==
  IF idx = <<>> THEN <<>>
  ELSE IF Head(idx) \in seen THEN LabelsAt(opts, Tail(idx), seen)
  ELSE <<opts[Head(idx)]>> \o LabelsAt(opts, Tail(idx), seen \cup {Head(idx)})

FirstN(seq, n) == SubSeq(seq, 1, IF Len(seq) < n THEN Len(seq) ELSE n)

\* The numbers written in the text w, in their order.
RECURSIVE IndexesOf(_)
IndexesOf(w) ==
  IF w = <<>> THEN <<>>
  ELSE IF Head(w) \in DOMAIN DigitTable THEN <<DigitTable[Head(w)]>> \o IndexesOf(Tail(w))
  ELSE IndexesOf(Tail(w))

\* The text w is made of numbers of options of q between delimiters.
IsIndexAnswer(q, w) ==
  /\ IndexesOf(w) # <<>>
  /\ \A k \in 1..Len(w) :
       \/ w[k] \in Delimiters \cup {" "}
       \/ /\ w[k] \in DOMAIN DigitTable
          /\ DigitTable[w[k]] >= 1 /\ DigitTable[w[k]] <= Len(getAllowed(q))
          /\ k < Len(w) => w[k + 1] \in Delimiters

\* The value Stage B reads for question q: the candidate's if it has one.
AnswerTo(q) ==
  Get(Spread(rawData, IF IsUndef(candidate) THEN EmptyObject ELSE candidate), q.notionKey)

\* C20 as stated: an answer made of option numbers between 1 and the number
\* of options resolves to the labels at those positions, in the order of the
\* numbers, each label once.
C20_IndexTokensResolve ==
  \A i \in 1..Len(runs) : \A j \in MultiSelectQuestions :
    LET q == QUESTIONS[j]
    IN  (IsStr(AnswerTo(q)) /\ IsIndexAnswer(q, AnswerTo(q).str)) =>
          runs[i].payload[q.notionKey]
            = Arr(LabelsAt(getAllowed(q), IndexesOf(AnswerTo(q).str), {}))

\* C20: an answer made of option numbers between 1 and the number of options
\* resolves to the labels at those positions, in the order of the numbers,
\* each label once, cut after the question's maximum number of items.
C20_IndexTokensResolveUpToMax ==
  \A i \in 1..Len(runs) : \A j \in MultiSelectQuestions :
    LET q == QUESTIONS[j]
    IN  (IsStr(AnswerTo(q)) /\ IsIndexAnswer(q, AnswerTo(q).str)) =>
          runs[i].payload[q.notionKey]
            = Arr(FirstN(LabelsAt(getAllowed(q), IndexesOf(AnswerTo(q).str), {}),
                         q.maxItems))

\* The raw answer "2,4" to a multi-select question gave the second and the
\* fourth label.
C20_Witness ==
  /\ Len(runs) > 0
  /\ \E j \in MultiSelectQuestions :
       LET q == QUESTIONS[j]
       IN  /\ rawData = Single(q.notionKey, Str(<<"2", ",", "4">>))
           /\ IsUndef(candidate)
           /\ runs[1].payload[q.notionKey]
                = Arr(<<getAllowed(q)[2], getAllowed(q)[4]>>)

(***************************************************************************)
(* Properties of the last resort of ensureSelect.                          *)
(***************************************************************************)
\* The words a normalised text and the j-th option of q share, and the words
\* of either: the overlap ratio is Shared / Either.
Shared(v, q, j) == Cardinality(Range(v) \cap Range(Norm(getAllowed(q)[j])))

Either(v, q, j) == Cardinality(Range(v) \cup Range(Norm(getAllowed(q)[j])))

\* The ratio of option j is lower than that of option k.
LowerRatio(v, q, j, k) == Shared(v, q, j) * Either(v, q, k) < Shared(v, q, k) * Either(v, q, j)

\* The answer to q is a text that no earlier step of ensureSelect resolves:
\* it is not empty, no option, no option number, no option once normalised,
\* and it scores no keyword; q has no Autre option.
LeftToNearest(q) ==
  /\ q.type = "select" /\ ~hasAutre(q) /\ getAllowed(q) # <<>>
  /\ IsStr(AnswerTo(q))
  /\ LET vRaw == Trim(AnswerTo(q).str)
     IN  /\ vRaw # <<>>
         /\ ~Includes(getAllowed(q), vRaw)
         /\ ~(Len(vRaw) = 1 /\ vRaw[1] \in DOMAIN DigitTable
                /\ DigitTable[vRaw[1]] \in 1..Len(getAllowed(q)))
         /\ \A j \in 1..Len(getAllowed(q)) : Norm(getAllowed(q)[j]) # Norm(vRaw)
         /\ ~(isQ01toQ05(q) /\ \E i \in 1..4 : scoreByIndex(q, Norm(vRaw))[i] > 0)

\* The position of the label the run gave to q.
ChosenBy(run, q) ==
  CHOOSE j \in 1..Len(getAllowed(q)) : Str(getAllowed(q)[j]) = run.payload[q.notionKey]

\* C21: such an answer resolves to an option of the highest overlap ratio,
\* and to the first option only when the first option shares a word with
\* the answer.
C21_NearestNeverDefault ==
  \A i \in 1..Len(runs) : \A n \in 1..Len(QUESTIONS) :
    LET q == QUESTIONS[n]
        v == Norm(Trim(AnswerTo(q).str))
        c == ChosenBy(runs[i], q)
    IN  LeftToNearest(q) =>
          /\ \A j \in 1..Len(getAllowed(q)) : ~LowerRatio(v, q, c, j)
          /\ c = 1 => Shared(v, q, 1) > 0

(***************************************************************************)
(* Properties of the raw answers under record_answer.                      *)
(***************************************************************************)
\* Every call of the message st handled was a record_answer that succeeded.
AllRecorded(st) ==
  \A k \in 1..Len(st.calls) :
    /\ st.calls[k].name = "record_answer"
    /\ st.calls[k].result \in {"[EVENT: RECORD_SUCCESS]", "[EVENT: AUDIT_COMPLETED]"}

\* The question the k-th call of the message answers.
QuestionOf(calls, k) == QUESTIONS[QIndex(Get(calls[k].args, "questionId"))]

\* C22: after a message of successful record_answer calls, the raw answers
\* of the current session hold, for every question the message answered,
\* the value of its latest call, and every answer committed before the
\* message to a question it did not answer is still there.
C22_AnswersNeverLost ==
  (liveChannels > 0 /\ CurrentIndex # 0) =>
    \A calls \in Messages :
      LET st == dispatch(calls, 1, HandlerState)
          before == sessions[CurrentIndex].auditData
          after == st.sessions[CurrentIndex].auditData
      IN  (Len(st.calls) = Len(calls) /\ AllRecorded(st)) =>
            /\ \A k \in 1..Len(calls) :
                 (\A m \in (k + 1)..Len(calls) :
                     QuestionOf(calls, m) # QuestionOf(calls, k)) =>
                   Get(after, QuestionOf(calls, k).notionKey)
                     = storedValue(QuestionOf(calls, k), calls[k].args)
            /\ \A key \in DOMAIN before :
                 (\A k \in 1..Len(calls) : QuestionOf(calls, k).notionKey # key) =>
                   Get(after, key) = before[key]

(***************************************************************************)
(* Playback with the decoding written out.  The audio branch of onmessage  *)
(* awaits decodeAudioData before it schedules the buffer: the handler of   *)
(* a chunk is suspended at the await while later messages are handled, and *)
(* it resumes when its own decoding resolves.  onmessage keeps no queue    *)
(* and chains no promise, so the decodings in flight resolve in any order. *)
(***************************************************************************)
MaxChunks == 3

\* onmessage up to the await: resetSilenceTimer() and the call of decodeAudioData.
ReceiveChunk(d) ==
  /\ Len(decodes) < MaxChunks
  /\ silenceTimerRef' = FALSE
  /\ decodes' = Append(decodes, [duration |-> d, resolved |-> FALSE])
  /\ UNCHANGED <<nextStartTimeRef, sourcesRef, audioTime>>

\* onmessage after the await of the k-th chunk: the buffer is started and remembered.
DecodeResolves(k) ==
  LET start == scheduleStart(nextStartTimeRef, audioTime)
  IN  /\ k \in 1..Len(decodes)
      /\ ~decodes[k].resolved
      /\ decodes' = [decodes EXCEPT ![k].resolved = TRUE]
      /\ sourcesRef' = Append(sourcesRef, [start |-> start, duration |-> decodes[k].duration,
                                           at |-> audioTime, chunk |-> k])
      /\ nextStartTimeRef' = start + decodes[k].duration
      /\ UNCHANGED <<audioTime, silenceTimerRef>>

NextDecode ==
  \/ (\E d \in Durations : ReceiveChunk(d)) /\ UnchangedButAudio
  \/ (\E k \in 1..MaxChunks : DecodeResolves(k)) /\ UnchangedButAudio
  \/ Interrupted /\ UnchangedButAudio
  \/ AudioClock /\ UnchangedButAudio

SpecDecode == InitAudio /\ [][NextDecode]_vars

\* C23: of two chunks received on the channel and scheduled since the last
\* interruption, the one received first is given the earlier start time,
\* whatever the order in which the decodings resolve.
C23_ArrivalOrder ==
  \A a, b \in 1..Len(sourcesRef) :
    sourcesRef[a].chunk < sourcesRef[b].chunk => sourcesRef[a].start < sourcesRef[b].start

\* The chunks whose source is among the handles of sourcesRef.
Handles == {sourcesRef[a].chunk : a \in 1..Len(sourcesRef)}

\* The chunks that were scheduled and whose source was stopped since.
Stopped == {k \in 1..Len(decodes) : decodes[k].resolved /\ k \notin Handles}

\* C26: a step that stops a scheduled buffer stops every one of them, leaves
\* no handle and resets the cursor; the buffer scheduled next, be it one that
\* was still being decoded when the interruption arrived, starts at the
\* current time of the output context.
C26_InterruptionClearsAll ==
  [][/\ (\E a \in 1..Len(sourcesRef) : \A b \in 1..Len(sourcesRef') : sourcesRef'[b] # sourcesRef[a])
        => (sourcesRef' = <<>> /\ nextStartTimeRef' = 0)
     /\ (Stopped # {} /\ sourcesRef = <<>> /\ sourcesRef' # <<>>)
        => (Len(sourcesRef') = 1 /\ sourcesRef'[1].start = audioTime)]_vars

\* The second chunk was scheduled and then stopped by an interruption that
\* arrived while the first chunk was still being decoded; the first chunk
\* was scheduled afterwards, at the current time.
C26_Witness ==
  /\ 2 \in Stopped
  /\ Len(sourcesRef) = 1
  /\ sourcesRef[1].chunk = 1
  /\ sourcesRef[1].at > 0
  /\ sourcesRef[1].start = sourcesRef[1].at

\* The payload of the submission was built.
Built(sub) == sub.payload # EmptyObject

\* C27: the payload of a submission carries, as session_id, the id of the
\* session that was current when submitToWebhook took its raw answers,
\* whatever became of the current session while the mapping call ran.
C27_PayloadKeepsSessionId ==
  \A i \in 1..Len(submissions) :
    Built(submissions[i]) => Get(submissions[i].payload, "session_id") = submissions[i].origin

\* The session of the next state that has the id of session s (s if none).
After(s) ==
  IF \E j \in 1..Len(sessions') : sessions'[j].id = s.id
  THEN sessions'[CHOOSE j \in 1..Len(sessions') : sessions'[j].id = s.id]
  ELSE s

\* C29: a finished session stays finished, and no step, a later
\* record_answer or technical_closure included, changes its pointer or its
\* raw answers.
C29_FinishedIsAbsorbing ==
  [][\A i \in 1..Len(sessions) :
       sessions[i].isFinished =>
         /\ After(sessions[i]).isFinished
         /\ After(sessions[i]).currentStep = sessions[i].currentStep
         /\ After(sessions[i]).auditData = sessions[i].auditData]_vars

(***************************************************************************)
(* record_answer on its own: an interview is started and the agent records *)
(* answers of every kind, one call per message.                            *)
(***************************************************************************)
RecordArgs(id, value) ==
  [k \in {"questionId", "value"} |-> IF k = "questionId" THEN Str(<<id>>) ELSE value]

\* The arguments of the record_answer calls: a select answer that is no
\* option, with a free text, on a question without and with an autreKey; a
\* multi-select answer; an e-mail; a consent in capitals between spaces
\* and one that is no token of the vocabulary.
RecordSamples ==
  { Put(RecordArgs("q01", Str(<<"bof">>)), "autreValue", Str(<<"consultant">>)),
    Put(RecordArgs("q06", Str(<<"bof">>)), "autreValue", Str(<<"consultant">>)),
    Put(Single("questionId", Str(<<"q17">>)), "multiValues", Arr(<< <<"1">>, <<"bof">> >>)),
    RecordArgs("q20", Str(<<"bof">>)),
    RecordArgs("q21", Str(<<" ", "OUI", " ">>)),
    RecordArgs("q21", Str(<<"d'accord">>)) }

NextRecord ==
  \/ StartInterview(TRUE)
  \/ \E k \in 1..Len(connects) : ConnectResolves(k)
  \/ Render
  \/ \E args \in RecordSamples :
       OnToolCall(<<[name |-> "record_answer", args |-> args]>>, MaxSubmissions)

SpecRecord == Init /\ [][NextRecord]_vars

AffirmativeTokens == {<<"true">>, <<"oui">>, <<"ok">>, <<"accord">>, <<"yes">>}

\* The value the answer is to be stored as, by the kind of the question.
ValueByKind(q, args) ==
  CASE q.type = "array" ->
         IF IsArr(Get(args, "multiValues")) THEN Get(args, "multiValues") ELSE Arr(<<>>)
    [] q.type = "bool" ->
         Bool(\E t \in AffirmativeTokens : toLowerCase(Trim(JsString(Get(args, "value")))) = t)
    [] OTHER -> Get(args, "value")

\* The call with these arguments succeeds in the current state.
Succeeds(args) ==
  handleRecordAnswer(HandlerState, args).calls[1].result
    \in {"[EVENT: RECORD_SUCCESS]", "[EVENT: AUDIT_COMPLETED]"}

\* The current session once the message is handled.
Recorded == sessions'[FindSession(sessions', currentSessionIdRef)]

\* C30: a successful record_answer for the question of schema index i
\* leaves the pointer at i + 1 and the value under the key of the question,
\* stored by the kind of the question and not checked against the options;
\* a free text given with it is stored under the autreKey of the question.
C30_RecordStoresByKind ==
  [][\A args \in RecordSamples :
       LET n == QIndex(Get(args, "questionId"))
           q == QUESTIONS[n]
       IN  (/\ Succeeds(args)
            /\ OnToolCall(<<[name |-> "record_answer", args |-> args]>>, MaxSubmissions))
             => /\ Recorded.currentStep = n
                /\ Get(Recorded.auditData, q.notionKey) = ValueByKind(q, args)
                /\ (Truthy(Get(args, "autreValue")) /\ q.autreKey # "")
                     => Get(Recorded.auditData, q.autreKey) = Get(args, "autreValue")]_vars

\* The session holds a select answer that is no option, the free text of
\* another under its autreKey, a multi-select array as given and a consent
\* written in capitals, and its pointer is at the end of the schema.
C30_Witness ==
  /\ CurrentIndex # 0
  /\ LET s == sessions[CurrentIndex]
     IN  /\ s.currentStep = Len(QUESTIONS)
         /\ Get(s.auditData, "Maturité -- Stratégie") = Str(<<"bof">>)
         /\ Get(s.auditData, "Statut Répondant -- Autre") = Str(<<"consultant">>)
         /\ Get(s.auditData, "Objectifs IA-Digital") = Arr(<< <<"1">>, <<"bof">> >>)
         /\ Get(s.auditData, "Consentement RGPD (Oui/Non)") = Bool(TRUE)

\* No live session is open or being opened: the interview was stopped, or
\* its channel failed or was closed, or none was started yet.
NoChannel == liveChannels = 0 /\ connects = <<>>

\* C25: once the session has stopped, by a teardown, a channel error or a
\* channel close, neither the silence timer nor a timer of the final turn
\* is still pending.
C25_NoOrphanedTimers == NoChannel => (~silenceTimerRef /\ finishTimers = 0)

(***************************************************************************)
(* The page of a returning user: localStorage holds the unfinished session *)
(* of an earlier visit, and one more session may be created.  The          *)
(* interview is resumed or started, its messages arrive one call at a      *)
(* time, and the user may change the session on display meanwhile.         *)
(***************************************************************************)
InitResume ==
  /\ IdleStageB /\ IdleAudio /\ IdleSubmit /\ IdleStart
  /\ clock = 1
  /\ savedSessions = stringify(<<SavedSession(0, FALSE)>>)
  /\ IdleServer
  /\ storedSessionId = DateNowToString(0)
  /\ mounted = "loading"
  /\ sessions = <<>> /\ sessionsRef = <<>>
  /\ currentSessionId = Undef /\ renderedSessionId = Undef /\ currentSessionIdRef = Undef
  /\ isPendingFinalSpeechRef = FALSE /\ isActive = FALSE
  /\ sessionRef = "null" /\ liveChannels = 0
  /\ silenceTimerRef = FALSE /\ finishTimers = 0 /\ archiveTimer = FALSE

\* A message of the live session: one tool call, or the end of a turn.
OnMessage ==
  \/ \E call \in CallSamples : OnToolCall(<<call>>, MaxSubmissions)
  \/ OnTurnComplete("answer")

NextResume ==
  \/ Mount
  \/ mounted = "mounted" /\ StartInterview(TRUE)
  \/ mounted = "mounted" /\ \E k \in 1..Len(connects) : ConnectResolves(k)
  \/ mounted = "mounted" /\ NewSessionButton
  \/ mounted = "mounted" /\ \E i \in 1..Len(sessionsRef) : HistoryClick(i)
  \/ mounted = "mounted" /\ Render
  \/ mounted = "mounted" /\ OnMessage
  \/ mounted = "mounted" /\ FinishTimerFire

SpecResume == InitResume /\ [][NextResume]_vars

\* The session was submitted: its final record_answer or its
\* technical_closure called submitToWebhook.
Submitted(id) == \E i \in 1..Len(submissions) : submissions[i].origin = id

\* C24: a finished session is one whose own final record_answer or own
\* technical_closure was handled; no timer armed for another session
\* marks it finished.
C24_FinishedByItsOwnCalls ==
  \A i \in 1..Len(sessions) : sessions[i].isFinished => Submitted(sessions[i].id)

\* C28: a tool call or a transcript turn handled on the live session leaves
\* every session but the one the channel was opened for as it was, also
\* after another session was selected from the history or created.
C28_ChannelWritesItsSession ==
  [][OnMessage =>
       \A i \in 1..Len(sessions) :
         sessions[i].id # closureSession => sessions'[i] = sessions[i]]_vars

\* C40: a consent kept as a string is read alike by record_answer and by
\* Stage B: the boolean of the payload is the one handleRecordAnswer would
\* have stored for the same text.
C40_BooleanParsesAgree ==
  \A i \in 1..Len(runs) :
    LET q == QUESTIONS[Len(QUESTIONS)]
        v == Get(runs[i].rawData, q.notionKey)
    IN  (IsUndef(runs[i].candidate) /\ IsStr(v))
          => runs[i].payload[q.notionKey] = storedValue(q, RecordArgs(q.id, v))

(***************************************************************************)
(* Stage B on a raw answer that is an option of its question, with a       *)
(* candidate of the mapping call that holds nothing usable for that key.   *)
(***************************************************************************)
\* What a candidate holds when the mapping found no answer: an empty
\* string, an empty list, or a text that matches no option.
UnusableValues == {Str(<<>>), Arr(<<>>), Str(<<"bof">>)}

\* The second option of question q as record_answer stores it.
OptionAnswer(q) ==
  IF q.type = "array" THEN Arr(<<getAllowed(q)[2]>>) ELSE Str(getAllowed(q)[2])

MergeInputs ==
  {[rawData |-> Single(QUESTIONS[i].notionKey, OptionAnswer(QUESTIONS[i])),
    candidate |-> Single(QUESTIONS[i].notionKey, c)] :
     i \in {n \in 1..Len(QUESTIONS) : getAllowed(QUESTIONS[n]) # <<>>}, c \in UnusableValues}

InitMerge ==
  /\ \E inp \in MergeInputs : rawData = inp.rawData /\ candidate = inp.candidate
  /\ runs = <<>>
  /\ clock = 1
  /\ currentSessionIdRef \in SessionIds
  /\ IdleAudio /\ IdleSession /\ IdleSubmit /\ IdleStart /\ IdleLoad

SpecMerge == InitMerge /\ [][NextB]_vars

\* C37: when the raw answer to a question is one of its options and the
\* candidate holds an empty string, an empty list or a text matching no
\* option for that key, the payload keeps the raw answer.
C37_UnusableCandidateKeepsRaw ==
  \A i \in 1..Len(runs) : \A n \in 1..Len(QUESTIONS) :
    LET q == QUESTIONS[n]
    IN  (/\ getAllowed(q) # <<>>
         /\ Get(runs[i].rawData, q.notionKey) = OptionAnswer(q)
         /\ ~IsUndef(runs[i].candidate)
         /\ Get(runs[i].candidate, q.notionKey) \in UnusableValues)
          => runs[i].payload[q.notionKey] = OptionAnswer(q)

\* C32: each firing of the silence timer adds one to the consecutive-error
\* counter of the current session, so that the silence events of a session
\* carry larger and larger counts until the counter is reset.
C32_SilenceIncrementsCounter ==
  [][(SilenceTimerFire /\ CurrentIndex # 0)
       => sessions'[CurrentIndex].consecutiveErrors
            = sessions[CurrentIndex].consecutiveErrors + 1]_vars

(***************************************************************************)
(* The turns of a live session with their texts: the transcriptions fill   *)
(* the two buffers and turnComplete moves them to the transcript.  A text  *)
(* is the sequence of its words; fragments are joined as += joins them.    *)
(***************************************************************************)
MaxFragments == 2

MaxEntries == 4

\* Fragments of what the user says: nothing but a space, two characters,
\* three characters.
InputTexts == {<<" ">>, <<"ok">>, <<"non">>}

\* Fragments of what the agent says: a thanks, an apology.
OutputTexts == {<<"merci">>, <<"Désolé", "pas", "compris">>}

LengthPairs == {<<" ", 1>>, <<"ok", 2>>, <<"non", 3>>}

LengthTable == [w \in {p[1] : p \in LengthPairs} |-> (CHOOSE p \in LengthPairs : p[1] = w)[2]]

\* String.prototype.length of a user text
RECURSIVE TextLength(_)
TextLength(w) == IF w = <<>> THEN 0 ELSE LengthTable[Head(w)] + TextLength(Tail(w))

\* isErrorResponse of the turnComplete branch
isErrorResponse(output) ==
  /\ Includes(toLowerCase(output), "désolé")
  /\ Includes(toLowerCase(output), "comprends") \/ Includes(toLowerCase(output), "compris")

\* newErrCount of the turnComplete branch, from the texts of the turn
newErrCountOf(input, output, count) ==
  IF isErrorResponse(output) THEN count + 1
  ELSE IF TextLength(input) > 2 THEN 0
  ELSE count

newTAgentFirst(transcript, input, output) ==
  transcript
    \o (IF output # <<>> THEN <<[role |-> "Agent", text |-> output]>> ELSE <<>>)
    \o (IF input # <<>> THEN <<[role |-> "User", text |-> input]>> ELSE <<>>)

\* newT of the turnComplete branch
newT(transcript, input, output) ==
  transcript
    \o (IF input # <<>> THEN <<[role |-> "User", text |-> input]>> ELSE <<>>)
    \o (IF output # <<>> THEN <<[role |-> "Agent", text |-> output]>> ELSE <<>>)

\* The inputTranscription branch of onmessage
ReceiveInputTranscription(text) ==
  /\ liveChannels > 0
  /\ Len(currentInputTextRef) < MaxFragments
  /\ silenceTimerRef' = FALSE
  /\ currentInputTextRef' = currentInputTextRef \o text
  /\ lastText' = NoText
  /\ UNCHANGED <<varsB, varsLoad, varsAudio, varsSubmit, clock, currentSessionIdRef, sessions,
                 sessionsRef, currentSessionId, renderedSessionId, storedSessionId,
                 isPendingFinalSpeechRef, isActive, sessionRef, liveChannels, finishTimers,
                 archiveTimer, sessionPromiseRef, connects, mediaStreamRef, captureStreams,
                 closureIsActive, closureSession, currentOutputTextRef>>

\* The outputTranscription branch of onmessage
ReceiveOutputTranscription(text) ==
  /\ liveChannels > 0
  /\ currentOutputTextRef = <<>>
  /\ currentOutputTextRef' = currentOutputTextRef \o text
  /\ lastText' = NoText
  /\ UNCHANGED <<varsB, varsLoad, varsAudio, varsSubmit, clock, currentSessionIdRef, sessions,
                 sessionsRef, currentSessionId, renderedSessionId, storedSessionId,
                 isPendingFinalSpeechRef, isActive, sessionRef, liveChannels, finishTimers,
                 archiveTimer, sessionPromiseRef, connects, mediaStreamRef, captureStreams,
                 closureIsActive, closureSession, currentInputTextRef, silenceTimerRef>>

\* The turnComplete branch of onmessage
TurnComplete ==
  LET input == Trim(currentInputTextRef)
      output == Trim(currentOutputTextRef)
      i == FindSession(sessions, currentSessionIdRef)
  IN  /\ liveChannels > 0
      /\ i # 0 => /\ Len(sessions[i].transcript) + 2 <= MaxEntries
                  /\ isErrorResponse(output) => sessions[i].consecutiveErrors < MaxErrors
      /\ sessions' =
           IF i = 0 \/ (input = <<>> /\ output = <<>>) THEN sessions
           ELSE UpdateSession(sessions, currentSessionIdRef,
                  [transcript |-> newT(sessions[i].transcript, input, output),
                   consecutiveErrors |->
                     newErrCountOf(input, output, sessions[i].consecutiveErrors)])
      /\ clearTexts
      /\ silenceTimerRef' = TRUE
      /\ IF isPendingFinalSpeechRef
         THEN /\ finishTimers < MaxTimers
              /\ isPendingFinalSpeechRef' = FALSE
              /\ finishTimers' = finishTimers + 1
         ELSE UNCHANGED <<isPendingFinalSpeechRef, finishTimers>>
      /\ lastText' = NoText
      /\ UNCHANGED <<varsB, varsLoad, varsAudio, varsSubmit, clock, currentSessionIdRef,
                     sessionsRef, currentSessionId, renderedSessionId, storedSessionId,
                     isActive, sessionRef, liveChannels, archiveTimer, sessionPromiseRef,
                     connects, mediaStreamRef, captureStreams, closureIsActive,
                     closureSession>>

NextTurn ==
  \/ StartInterview(TRUE)
  \/ \E k \in 1..Len(connects) : ConnectResolves(k)
  \/ Render
  \/ \E text \in InputTexts : ReceiveInputTranscription(text)
  \/ \E text \in OutputTexts : ReceiveOutputTranscription(text)
  \/ TurnComplete

SpecTurn == Init /\ [][NextTurn]_vars

\* C33: after a turn in which the user said more than two characters the
\* consecutive-error counter of the session is zero, whatever the agent
\* said in that turn.
C33_UtteranceResetsCounter ==
  [][(TurnComplete /\ CurrentIndex # 0 /\ TextLength(Trim(currentInputTextRef)) > 2)
       => sessions'[CurrentIndex].consecutiveErrors = 0]_vars

\* The roles of the entries a step adds to the transcript of the current session.
AddedRoles ==
  LET before == sessions[CurrentIndex].transcript
      after == sessions'[CurrentIndex].transcript
  IN  [k \in 1..(Len(after) - Len(before)) |-> after[Len(before) + k].role]

\* The entries of the current session are kept, the buffers are empty and
\* the silence timer is armed after the step.
KeepsAndClears ==
  LET before == sessions[CurrentIndex].transcript
      after == sessions'[CurrentIndex].transcript
  IN  /\ Len(after) >= Len(before)
      /\ SubSeq(after, 1, Len(before)) = before
      /\ currentInputTextRef' = <<>> /\ currentOutputTextRef' = <<>>
      /\ silenceTimerRef'

Entry(role, held) == IF held THEN <<role>> ELSE <<>>

\* C34 as stated: at a turn-complete signal each buffer that is not empty
\* gives one entry of the transcript of the current session, the user's
\* before the agent's; the buffers are emptied, the silence timer is armed
\* and the entries already there are kept.
C34_BuffersJoinTranscript ==
  [][(TurnComplete /\ CurrentIndex # 0)
       => /\ KeepsAndClears
          /\ AddedRoles = Entry("User", currentInputTextRef # <<>>)
                            \o Entry("Agent", currentOutputTextRef # <<>>)]_vars

\* C34, amended: at a turn-complete signal each buffer that holds more than
\* white space gives one entry, its trimmed text, the user's before the
\* agent's; the buffers are emptied, the silence timer is armed and the
\* entries already there are kept.
C34_TextsJoinTranscript ==
  [][(TurnComplete /\ CurrentIndex # 0)
       => /\ KeepsAndClears
          /\ AddedRoles = Entry("User", Trim(currentInputTextRef) # <<>>)
                            \o Entry("Agent", Trim(currentOutputTextRef) # <<>>)
          /\ \A k \in 1..Len(sessions'[CurrentIndex].transcript) :
               LET e == sessions'[CurrentIndex].transcript[k]
               IN  k > Len(sessions[CurrentIndex].transcript)
                     => e.text = IF e.role = "User" THEN Trim(currentInputTextRef)
                                 ELSE Trim(currentOutputTextRef)]_vars

\* A turn in which only the user spoke was followed by a turn in which both
\* spoke: three entries, the buffers empty, the silence timer armed.
C34_Witness ==
  /\ CurrentIndex # 0
  /\ LET t == sessions[CurrentIndex].transcript
     IN  /\ Len(t) = 3
         /\ t[1] = [role |-> "User", text |-> <<"non">>]
         /\ t[2].role = "User"
         /\ t[3].role = "Agent"
  /\ currentInputTextRef = <<>> /\ currentOutputTextRef = <<>>
  /\ silenceTimerRef


\* ---------------------------------------------------------------------
\* The start button pressed again while an interview runs. The button
\* calls startInterview whatever isActive is, and startInterview opens a
\* stream and a channel without closing those it holds.

MaxOpen == 2

StartButton == \E granted \in BOOLEAN : startInterview(granted, MaxOpen, MaxOpen)

NextRestart ==
  \/ StartButton
  \/ \E k \in 1..Len(connects) : ConnectResolves(k)
  \/ Render
  \/ NewSessionButton
  \/ \E held \in BOOLEAN : OnClose(held)
  \/ OnError
  \/ \E text \in InputTexts : ReceiveInputTranscription(text)

SpecRestart == Init /\ [][NextRestart]_vars

\* C31: at most one channel is open and at most one microphone stream
\* feeds a capture callback, also when the start button is pressed while
\* an interview runs.
C31_OneChannelOnePipeline == liveChannels <= 1 /\ captureStreams <= 1


C36_ReloadRestoresState ==
  [][Reload => /\ sessions' = sessions
               /\ currentSessionId' = currentSessionId]_vars


(***************************************************************************)
(* The page loaded with one saved session, with the 20 s timer of the      *)
(* finished effect: a pending render runs, and the timer fires when it is  *)
(* due, however often a render was pending in between.                     *)
(***************************************************************************)
NextArchive ==
  \/ NextResume
  \/ mounted = "mounted" /\ ArchiveTimerFire

SpecArchive ==
  InitResume /\ [][NextArchive]_vars /\ WF_vars(Render) /\ SF_vars(ArchiveTimerFire)

\* The current session is in the list and finished.
CurrentFinished == FinishedDeps(sessions, currentSessionId)[1] = Bool(TRUE)

\* The render that finds the current session finished, or another finished
\* session current.
FinishedEffectRuns ==
  /\ Render
  /\ CurrentFinished
  /\ FinishedDeps(sessions, currentSessionId) # FinishedDeps(sessionsRef, renderedSessionId)

\* C38: the render that finds the current session finished runs the
\* teardown and arms the timer; while the rendered current session is
\* finished the timer is pending, and it is pending for no other session;
\* the timer sets the current session to none and leaves the list alone;
\* a finished current session does not stay current for ever: it is
\* archived, or another session is made current and the timer is cancelled.
C38_FinishedSessionArchived ==
  /\ [][FinishedEffectRuns
          => /\ archiveTimer'
             /\ ~isActive' /\ sessionRef' = "null" /\ ~silenceTimerRef' /\ ~mediaStreamRef']_vars
  /\ []((~RenderPending /\ mounted = "mounted") => (archiveTimer <=> CurrentFinished))
  /\ [][ArchiveTimerFire
          => /\ currentSessionId' = Undef
             /\ sessions' = sessions
             /\ \E i \in 1..Len(sessions') :
                  sessions'[i].id = currentSessionId /\ sessions'[i].isFinished]_vars
  /\ \A id \in {DateNowToString(0), DateNowToString(1)} :
       (CurrentFinished /\ currentSessionId = id) ~> (currentSessionId # id)

\* The finished session was archived: it is in the list, no session is
\* current and no timer is pending.
C38_Witness ==
  /\ currentSessionId = Undef /\ renderedSessionId = Undef
  /\ ~archiveTimer
  /\ \E i \in 1..Len(sessions) : sessions[i].isFinished /\ sessions[i].id = storedSessionId


(***************************************************************************)
(* api/normalize: the serverless handler of the semantic mapping.  A       *)
(* request holds its method, the two environment variables of the key,     *)
(* its body (Undef when there is none, else the four fields the handler    *)
(* reads) and what generateContent does for it; the text of the model is a *)
(* sequence of lexemes; the fence of three backquotes is the lexeme {fence}, *)
(* with json after it {fence}json.                                         *)
(***************************************************************************)
Methods == {"POST", "GET", "PUT"}

KeyValues == {Undef, Str(<<>>), Str(<<"key">>)}

Body(rawDataField, transcript, questionsContext, prompt) ==
  [rawData |-> rawDataField, transcript |-> transcript,
   questionsContext |-> questionsContext, prompt |-> prompt]

BodySamples ==
  {Undef} \cup
  {Body(r, t, c, p) : r \in {Undef, Obj}, t \in {Arr(<<>>), Undef, Obj},
                      c \in {Arr(<<>>), Undef}, p \in {Str(<<"prompt">>), Undef}}

\* What the race of generateContent and the 90 s timer gives: the timer
\* wins, generateContent rejects, or a response whose text is a string or
\* is missing.
ModelTexts ==
  { <<>>, <<"{}">>, <<"{\"q\":\"a\"}">>, <<"{fence}json", "{\"q\":\"a\"}", "{fence}">>,
    <<"[]">>, <<"[\"a\"]">>, <<"5">>, <<"null">>, <<"\"a\"">>, <<"Voici", "le", "JSON">> }

ModelResults ==
  {[kind |-> "timeout"], [kind |-> "throw"], [kind |-> "notext"]}
    \cup {[kind |-> "text", text |-> t] : t \in ModelTexts}

Requests ==
  {[method |-> m, GOOGLE_API_KEY |-> g, GEMINI_API_KEY |-> k, body |-> b, model |-> r] :
     m \in Methods, g \in {Undef, Str(<<"key">>)}, k \in KeyValues,
     b \in BodySamples, r \in ModelResults}

\* JSON.parse on the texts above: the value, or threw for a text that is
\* not JSON.  A parsed object is Obj, whatever it holds.
ParseTablePairs ==
  { <<<<"{}">>, Obj>>, <<<<"{\"q\":\"a\"}">>, Obj>>, <<<<"[]">>, Arr(<<>>)>>,
    <<<<"[\"a\"]">>, Arr(<<Str(<<"a">>)>>)>>, <<<<"5">>, Num(5)>>,
    <<<<"null">>, Undef>>, <<<<"\"a\"">>, Str(<<"a">>)>> }

JSONparse(text) ==
  IF \E p \in ParseTablePairs : p[1] = text
  THEN [threw |-> FALSE, value |-> (CHOOSE p \in ParseTablePairs : p[1] = text)[2]]
  ELSE [threw |-> TRUE, value |-> Undef]

\* String(rawText).replace(/{fence}json/g, '').replace(/{fence}/g, '').trim()
cleaned(rawText) == Trim(SelectSeq(rawText, LAMBDA l : l \notin {"{fence}json", "{fence}"}))

\* typeof v === 'object' of a value that is truthy
IsObjectType(v) == v = Obj \/ IsArr(v)

\* The candidate of the handler after the race was won by generateContent.
candidateOf(resp) ==
  LET rawText == IF resp.kind = "text" THEN resp.text ELSE <<"{}">>
      text == IF cleaned(rawText) = <<>> THEN <<"{}">> ELSE cleaned(rawText)
      parsed == JSONparse(text)
  IN  IF parsed.threw THEN Undef
      ELSE IF Truthy(parsed.value) /\ IsObjectType(parsed.value) THEN parsed.value
      ELSE Undef

\* response.status(code).json(data): candidate is Undef for null, and
\* hasCandidate tells whether data has the key.
Response(code, hasCandidate, cand, error) ==
  [status |-> code, hasCandidate |-> hasCandidate, candidate |-> cand, error |-> error]

\* The field of request.body || {}
Field(body, name) == IF IsUndef(body) THEN Undef ELSE body[name]

handler(req) ==
  IF req.method # "POST" THEN Response(405, FALSE, Undef, "Method not allowed")
  ELSE IF ~Truthy(Or(req.GOOGLE_API_KEY, req.GEMINI_API_KEY))
  THEN Response(200, TRUE, Undef, "MISSING_SERVER_API_KEY")
  ELSE IF \/ ~Truthy(Field(req.body, "rawData"))
          \/ ~IsArr(Field(req.body, "transcript"))
          \/ ~IsArr(Field(req.body, "questionsContext"))
          \/ ~IsStr(Field(req.body, "prompt"))
  THEN Response(400, TRUE, Undef, "Invalid payload")
  ELSE IF req.model.kind \in {"timeout", "throw"}
  THEN Response(200, TRUE, Undef, "SERVER_NORMALIZE_FAIL")
  ELSE Response(200, TRUE, candidateOf(req.model), "")

InitServer ==
  /\ IdleStageB /\ IdleAudio /\ IdleSession /\ IdleSubmit /\ IdleStart
  /\ clock = 1
  /\ currentSessionIdRef = Undef
  /\ savedSessions = [text |-> "array", list |-> <<>>] /\ mounted = "mounted"
  /\ request \in Requests
  /\ response = NoResponse

Handle ==
  /\ response = NoResponse
  /\ response' = handler(request)
  /\ UNCHANGED <<varsB, varsAudio, varsSession, varsSubmit, varsStart, clock,
                 currentSessionIdRef, lastText, savedSessions, mounted, request>>

NextServer == Handle

SpecServer == InitServer /\ [][NextServer]_vars

\* The body holds the four fields of the contract: an object of raw
\* answers, a transcript list, a question list and a prompt text.
WellFormedBody ==
  /\ ~IsUndef(request.body)
  /\ request.body.rawData = Obj
  /\ IsArr(request.body.transcript)
  /\ IsArr(request.body.questionsContext)
  /\ IsStr(request.body.prompt)

\* C39: a request that is not a POST is answered 405; a POST with a
\* malformed body 400 with a null candidate; a well-formed POST 200 with a
\* candidate that is null or a JSON object, and null when the key is
\* missing, the model timed out or threw.
C39_NormalizeAnswers ==
  response # NoResponse =>
    /\ request.method # "POST" => response.status = 405
    /\ (request.method = "POST" /\ ~WellFormedBody)
         => response.status = 400 /\ response.hasCandidate /\ response.candidate = Undef
    /\ (request.method = "POST" /\ WellFormedBody)
         => /\ response.status = 200
            /\ response.hasCandidate
            /\ response.candidate \in {Undef, Obj}
            /\ (\/ ~Truthy(Or(request.GOOGLE_API_KEY, request.GEMINI_API_KEY))
                \/ request.model.kind \in {"timeout", "throw"})
                 => response.candidate = Undef

====
